---- MODULE Spec2Model ----
(***************************************************************************)
(* Tonk game session of src/app.py: one Game object held in the `games`    *)
(* registry, mutated by the join, start and move endpoints.                *)
(*                                                                         *)
(* Cards are numbered 1..DeckSize in the order create_game builds them     *)
(* (suit-major, rank-minor).  Player ids are uuids in the code; here the   *)
(* player appended at list index i (0-based) has id i+1, and 0 is an id no *)
(* seated player has.  Python lists are sequences whose last element is    *)
(* the end that pop()/append() work on.                                    *)
(***************************************************************************)
EXTENDS Integers, Sequences, FiniteSets, TLC

(* ---------------------------------------------------------------- bounds *)
MaxCalls == 4        \* requests applied to the session in one behaviour;
                     \* no request is sent once they are used up
MaxIds == 3          \* longest card-id list in a createSpread request
MaxTasks == 2        \* move requests in flight at once (SpecAsync)
MaxSockets == 2      \* websockets opened on the session (SpecNotify)
MaxCallers == 2      \* GameManager calls running at once (SpecGm)
MaxThreads == 3      \* threads that call DatabaseManager() (SpecDb)
MaxStoreCalls == 3   \* requests applied to a session that is saved (SpecStore)

(* ------------------------------------------------------ program constants *)
NumSuits == 4
NumRanks == 13
HandSize == 5
max_players == 4
TonkLimit == 5
TonkPenalty == 10
MinSpread == 3

DeckSize == NumSuits * NumRanks

NoCard == 0          \* a card id that no card has (or a missing cardId)
NoSpread == 0        \* a spread id that no spread has (or a missing spreadId)
NoPlayer == 0        \* a player id that no seated player has
NoUser == "none"     \* no authenticated user / no userId in the request
UserIds == {"u1"}
\* the registered users: those who create and join over HTTP, and one more
\* who only opens websockets
AllUsers == UserIds \cup {"u2"}

Suits == <<"hearts", "diamonds", "clubs", "spades">>
Ranks == <<"A", "2", "3", "4", "5", "6", "7", "8", "9", "10", "J", "Q", "K">>

Suit(c) == Suits[((c - 1) \div NumRanks) + 1]
Rank(c) == Ranks[((c - 1) % NumRanks) + 1]
RankIndex(c) == ((c - 1) % NumRanks) + 1
Value(c) == IF RankIndex(c) >= 11 THEN 10 ELSE IF RankIndex(c) = 1 THEN 1 ELSE RankIndex(c)

(* ------------------------------------------------------- sequence helpers *)
Range(s) == {s[i] : i \in 1..Len(s)}
Reverse(s) == [i \in 1..Len(s) |-> s[Len(s) + 1 - i]]
RemoveAt(s, i) == SubSeq(s, 1, i - 1) \o SubSeq(s, i + 1, Len(s))
Front(s) == SubSeq(s, 1, Len(s) - 1)
Last(s) == s[Len(s)]

\* next((i for i, c in enumerate(hand) if c["id"] == card_id), -1), 1-based, 0 when absent
IndexOf(s, x) == IF \E i \in 1..Len(s) : s[i] = x
                 THEN CHOOSE i \in 1..Len(s) : s[i] = x /\ \A j \in 1..(i - 1) : s[j] # x
                 ELSE 0

RECURSIVE SumValues(_)
SumValues(s) == IF s = <<>> THEN 0 ELSE Value(Head(s)) + SumValues(Tail(s))

(* ------------------------------------------------------------------ state *)
VARIABLES game, clock, uuid, hung, tasks, connections, users,
          store, calls, manager, threads

\* the state that the HTTP handlers of the card table never write
elsewhere == <<connections, users, store, calls, manager, threads>>

\* the state of game_manager.py and database.py, which app.py does not use
apart == <<store, calls, manager, threads>>

appVars == <<game, clock, uuid, hung, tasks, connections, users>>

vars == <<game, clock, uuid, hung, tasks, connections, users, store, calls, manager, threads>>

BuiltDeck == [i \in 1..DeckSize |-> i]
\* random.shuffle: the orders explored
Shuffles == {BuiltDeck, Reverse(BuiltDeck)}

NewPlayer(id, user) ==
    [id |-> id, user_id |-> user, hand |-> <<>>, spreads |-> <<>>,
     has_dropped |-> FALSE, score |-> 0, last_move |-> <<>>, turns |-> 0,
     has_drawn_from_under |-> FALSE]

\* a move request on its way through make_move: where the handler stands (pc),
\* the request, the handler's local player_index, the count of applied
\* requests when it was sent, when its checks ran and when it was applied, and
\* whose turn it was when it was applied
NoTask ==
    [pc |-> "idle", playerId |-> NoPlayer, current_user |-> NoUser, moveType |-> "none",
     moveData |-> [source |-> "deck", cardId |-> NoCard, cards |-> <<>>, spreadId |-> NoSpread],
     player_index |-> -1, sent |-> -1, checked |-> -1, applied |-> -1, turn |-> -1,
     response |-> "none"]

\* connections.get(game_id): whether the session has a list of websockets at
\* all, and the websockets in it (open at the far end or not, and the
\* snapshots sent to them)
NoConnections == [listed |-> FALSE, sockets |-> <<>>]

NoMove == [playerId |-> NoPlayer, moveType |-> "none", moveData |-> <<>>, timestamp |-> 0]

\* GameManager.create_game: the games row and one game_players row per player
\* of the request, at positions 0, 1, ...; the rows a later call reads are the
\* players' id, user_id, position and whether a hand was dealt to them
CreatedStore(n, creator) ==
    [game_status |-> "lobby",
     deck |-> DeckSize,
     game_players |-> [i \in 1..n |->
                         [id |-> i, user_id |-> IF i = 1 THEN creator ELSE NoUser,
                          position |-> i - 1, hand |-> 0]]]

\* a GameManager call of one caller: where it stands, the user it seats, the
\* session it has read, and what it returned or raised
NoCall ==
    [pc |-> "idle", user_id |-> NoUser,
     read |-> [game_status |-> "lobby", deck |-> 0, game_players |-> <<>>],
     result |-> "none"]

\* DatabaseManager's class attributes when the class statement has run:
\* _instance None (0), _lock free (0); and what has happened so far: how many
\* objects super().__new__ has made, how many _init_db calls have begun and ended
NoInstance ==
    [instance |-> 0, lock |-> 0, allocated |-> 0, init_begun |-> 0, init_ended |-> 0]

\* a thread that calls DatabaseManager(): where it stands in __new__, the
\* instance it was given, and whether _init_db had ended when it was given
NoThread == [pc |-> "idle", got |-> 0, ready |-> FALSE]

\* create_game: Game(...) in lobby with the request's players; only the first
\* seat carries the creator's user id. A request with no players registers the
\* session too: games[game_id] = game comes before game_players[0] raises
CreateGame(n, creator, d) ==
    [players |-> [i \in 1..n |-> NewPlayer(i, IF i = 1 THEN creator ELSE NoUser)],
     deck |-> d,
     discard_pile |-> <<>>,
     under_card |-> NoCard,
     current_player_index |-> 0,
     turn_phase |-> "draw",
     table_spreads |-> <<>>,
     turn_count |-> 1,
     game_status |-> "lobby",
     last_move |-> NoMove,
     allow_under_card_any_turn |-> TRUE,
     winner |-> NoPlayer,
     win_reason |-> <<>>,
     creator_id |-> creator,
     face_up |-> {}]

Init ==
    /\ \E n \in 0..max_players, creator \in UserIds \cup {NoUser}, d \in Shuffles :
          /\ game = CreateGame(n, creator, d)
          /\ store = CreatedStore(n, creator)
    /\ clock = 0
    /\ uuid = 1
    /\ hung = FALSE
    /\ tasks = [t \in 1..MaxTasks |-> NoTask]
    /\ connections = NoConnections
    /\ users = [u \in AllUsers |-> [games_played |-> 0, games_won |-> 0]]
    /\ calls = [c \in 1..MaxCallers |-> NoCall]
    /\ manager = NoInstance
    /\ threads = [t \in 1..MaxThreads |-> NoThread]

(* ------------------------------------------------------------------- join *)
\* mutant of JoinError: a user already seated may sit down again
JoinErrorAllowsDuplicate(g, user) ==
    IF g.game_status # "lobby" THEN "Game already started"
    ELSE IF Len(g.players) >= max_players THEN "Game is full"
    ELSE "ok"

JoinError(g, user) ==
    IF g.game_status # "lobby" THEN "Game already started"
    ELSE IF Len(g.players) >= max_players THEN "Game is full"
    ELSE IF user # NoUser /\ \E i \in 1..Len(g.players) : g.players[i].user_id = user
         THEN "You are already in this game"
    ELSE "ok"

\* join_game: the session after the request and the reply sent
join_game(g, user) ==
    IF JoinError(g, user) # "ok"
    THEN [game |-> g, response |-> JoinError(g, user)]
    ELSE [game |-> [g EXCEPT !.players = Append(@, NewPlayer(Len(g.players) + 1, user))],
          response |-> "success"]

(* ------------------------------------------------------------------ start *)
\* the k cards popped from the end of d, in the order they are popped
Popped(d, k) == [i \in 1..k |-> d[Len(d) + 1 - i]]
Min(a, b) == IF a < b THEN a ELSE b

\* mutant of Deal: one card to each player in turn, five times round
DealRoundRobin(ps, d, i) ==
    LET n == Len(ps)
        L == Len(d)
    IN [players |-> [j \in 1..n |->
                        [ps[j] EXCEPT !.hand = @ \o [r \in 1..HandSize |-> d[L + 1 - ((r - 1) * n + j)]]]],
        deck |-> SubSeq(d, 1, L - HandSize * n)]

\* "for player in game.players: for _ in range(5): if game.deck: ... pop()"
RECURSIVE Deal(_, _, _)
Deal(ps, d, i) ==
    IF i > Len(ps) THEN [players |-> ps, deck |-> d]
    ELSE LET k == Min(HandSize, Len(d))
         IN Deal([ps EXCEPT ![i].hand = @ \o Popped(d, k)],
                 SubSeq(d, 1, Len(d) - k), i + 1)

\* mutant of StartError: the status is not looked at
StartErrorAnyStatus(g, current_user) ==
    IF g.creator_id # NoUser /\ current_user # NoUser /\ g.creator_id # current_user
    THEN "Only the game creator can start the game"
    ELSE IF Len(g.players) < 2 THEN "Need at least 2 players"
    ELSE "ok"

StartError(g, current_user) ==
    IF g.creator_id # NoUser /\ current_user # NoUser /\ g.creator_id # current_user
    THEN "Only the game creator can start the game"
    ELSE IF Len(g.players) < 2 THEN "Need at least 2 players"
    ELSE IF g.game_status # "lobby" THEN "Game already started"
    ELSE "ok"

StartedGame(g) ==
    LET dealt == Deal(g.players, g.deck, 1)
        d1 == dealt.deck
        hasFirst == d1 # <<>>
        d2 == IF hasFirst THEN Front(d1) ELSE d1
        hasUnder == d2 # <<>>
        d3 == IF hasUnder THEN Front(d2) ELSE d2
        dealtCards == UNION {Range(dealt.players[i].hand) : i \in 1..Len(g.players)}
    IN [g EXCEPT
          !.players = dealt.players,
          !.deck = d3,
          !.discard_pile = IF hasFirst THEN Append(@, Last(d1)) ELSE @,
          !.under_card = IF hasUnder THEN Last(d2) ELSE NoCard,
          !.face_up = (@ \cup (dealtCards \ UNION {Range(g.players[i].hand) : i \in 1..Len(g.players)}))
                        \cup (IF hasFirst THEN {Last(d1)} ELSE {})
                        \cup (IF hasUnder THEN {Last(d2)} ELSE {}),
          !.game_status = "playing",
          !.current_player_index = 0,
          !.turn_phase = "draw",
          !.turn_count = 1]

\* start_game: the session after the request and the reply sent
start_game(g, current_user) ==
    IF StartError(g, current_user) # "ok"
    THEN [game |-> g, response |-> StartError(g, current_user)]
    ELSE [game |-> StartedGame(g), response |-> "success"]

(* ----------------------------------------------------------- process_move *)
MoveTypes == {"draw", "discard", "createSpread", "addToSpread", "tonk", "drop", "hit", "startGame"}
Sources == {"deck", "discard", "under"}

\* moveData: the keys process_move reads; NoCard / NoSpread / <<>> stand for a
\* key that is absent
MoveData(source, cardId, cards, spreadId) ==
    [source |-> source, cardId |-> cardId, cards |-> cards, spreadId |-> spreadId]

Success(g) == [game |-> g, game_over |-> FALSE, winner |-> NoPlayer, win_reason |-> <<>>, hang |-> FALSE]
GameOver(g, w, why) == [game |-> g, game_over |-> TRUE, winner |-> w, win_reason |-> why, hang |-> FALSE]

\* mutant of ProcessDraw: the drawn card stays on its pile as well
ProcessDrawKeepsSource(g, pi, md) ==
    LET src == IF md.source = "deck" THEN g.deck
               ELSE IF md.source = "discard" THEN g.discard_pile
               ELSE IF g.under_card # NoCard THEN <<g.under_card>> ELSE <<>>
    IN IF src # <<>>
       THEN [game |-> [g EXCEPT !.players[pi + 1].hand = Append(@, Last(src)),
                                !.face_up = @ \cup {Last(src)},
                                !.turn_phase = "action"],
             game_over |-> FALSE, winner |-> NoPlayer, win_reason |-> <<>>, hang |-> FALSE]
       ELSE [game |-> g, game_over |-> FALSE, winner |-> NoPlayer, win_reason |-> <<>>, hang |-> FALSE]

\* mutant of ProcessDraw: the draw leaves turn_phase as it was
ProcessDrawKeepsPhase(g, pi, md) ==
    IF md.source = "deck" /\ g.deck # <<>> THEN
        Success([g EXCEPT !.deck = Front(@),
                          !.face_up = @ \cup {Last(g.deck)},
                          !.players[pi + 1].hand = Append(@, Last(g.deck)),
                          !.players[pi + 1].last_move = <<"Drew from deck">>])
    ELSE IF md.source = "discard" /\ g.discard_pile # <<>> THEN
        Success([g EXCEPT !.discard_pile = Front(@),
                          !.face_up = @ \cup {Last(g.discard_pile)},
                          !.players[pi + 1].hand = Append(@, Last(g.discard_pile)),
                          !.players[pi + 1].last_move = <<"Drew from discard">>])
    ELSE IF md.source = "under" /\ g.under_card # NoCard THEN
        Success([g EXCEPT !.under_card = NoCard,
                          !.face_up = @ \cup {g.under_card},
                          !.players[pi + 1].hand = Append(@, g.under_card),
                          !.players[pi + 1].has_drawn_from_under = TRUE,
                          !.players[pi + 1].last_move = <<"Drew under card">>])
    ELSE Success(g)

\* mutant of ProcessDraw: a draw of the under-card does not record it on the player
ProcessDrawForgetsUnder(g, pi, md) ==
    IF md.source = "deck" /\ g.deck # <<>> THEN
        Success([g EXCEPT !.deck = Front(@),
                          !.face_up = @ \cup {Last(g.deck)},
                          !.players[pi + 1].hand = Append(@, Last(g.deck)),
                          !.players[pi + 1].last_move = <<"Drew from deck">>,
                          !.turn_phase = "action"])
    ELSE IF md.source = "discard" /\ g.discard_pile # <<>> THEN
        Success([g EXCEPT !.discard_pile = Front(@),
                          !.face_up = @ \cup {Last(g.discard_pile)},
                          !.players[pi + 1].hand = Append(@, Last(g.discard_pile)),
                          !.players[pi + 1].last_move = <<"Drew from discard">>,
                          !.turn_phase = "action"])
    ELSE IF md.source = "under" /\ g.under_card # NoCard THEN
        Success([g EXCEPT !.under_card = NoCard,
                          !.face_up = @ \cup {g.under_card},
                          !.players[pi + 1].hand = Append(@, g.under_card),
                          !.players[pi + 1].last_move = <<"Drew under card">>,
                          !.turn_phase = "action"])
    ELSE Success(g)

\* move_type == MoveType.DRAW
ProcessDraw(g, pi, md) ==
    LET p == g.players[pi + 1] IN
    IF md.source = "deck" /\ g.deck # <<>> THEN
        Success([g EXCEPT !.deck = Front(@),
                          !.face_up = @ \cup {Last(g.deck)},
                          !.players[pi + 1].hand = Append(@, Last(g.deck)),
                          !.players[pi + 1].last_move = <<"Drew from deck">>,
                          !.turn_phase = "action"])
    ELSE IF md.source = "discard" /\ g.discard_pile # <<>> THEN
        Success([g EXCEPT !.discard_pile = Front(@),
                          !.face_up = @ \cup {Last(g.discard_pile)},
                          !.players[pi + 1].hand = Append(@, Last(g.discard_pile)),
                          !.players[pi + 1].last_move = <<"Drew from discard">>,
                          !.turn_phase = "action"])
    ELSE IF md.source = "under" /\ g.under_card # NoCard THEN
        IF g.allow_under_card_any_turn \/ p.turns > 0 THEN
            Success([g EXCEPT !.under_card = NoCard,
                              !.face_up = @ \cup {g.under_card},
                              !.players[pi + 1].hand = Append(@, g.under_card),
                              !.players[pi + 1].has_drawn_from_under = TRUE,
                              !.players[pi + 1].last_move = <<"Drew under card">>,
                              !.turn_phase = "action"])
        ELSE Success(g)
    ELSE Success(g)

\* mutant of ProcessDiscard: the seat the turn passes to does not count the turn
ProcessDiscardNoTurns(g, pi, md) ==
    LET p == g.players[pi + 1]
        card_index == IndexOf(p.hand, md.cardId)
        n == Len(g.players)
    IN
    IF md.cardId # NoCard /\ card_index # 0 THEN
        LET card == p.hand[card_index]
            g1 == [g EXCEPT !.players[pi + 1].hand = RemoveAt(@, card_index),
                            !.face_up = @ \cup {card},
                            !.discard_pile = Append(@, card),
                            !.players[pi + 1].last_move = <<"Discarded", Rank(card), Suit(card)>>]
        IN IF Len(g1.players[pi + 1].hand) = 0
           THEN GameOver(g1, p.id, <<"Tonk Out!">>)
           ELSE Success([g1 EXCEPT !.current_player_index = (@ + 1) % n,
                                   !.turn_count = @ + 1,
                                   !.turn_phase = "draw"])
    ELSE Success(g)

\* mutant of ProcessDiscard: the turn passes on even when the hand is empty
ProcessDiscardAlwaysAdvances(g, pi, md) ==
    LET p == g.players[pi + 1]
        card_index == IndexOf(p.hand, md.cardId)
        n == Len(g.players)
    IN
    IF md.cardId # NoCard /\ card_index # 0 THEN
        LET card == p.hand[card_index]
            nxt == (g.current_player_index + 1) % n
            g1 == [g EXCEPT !.players[pi + 1].hand = RemoveAt(@, card_index),
                            !.face_up = @ \cup {card},
                            !.discard_pile = Append(@, card),
                            !.players[pi + 1].last_move = <<"Discarded", Rank(card), Suit(card)>>,
                            !.current_player_index = nxt,
                            !.turn_count = @ + 1,
                            !.turn_phase = "draw",
                            !.players[nxt + 1].turns = @ + 1]
        IN IF Len(g1.players[pi + 1].hand) = 0
           THEN GameOver(g1, p.id, <<"Tonk Out!">>)
           ELSE Success(g1)
    ELSE Success(g)

\* move_type == MoveType.DISCARD
ProcessDiscard(g, pi, md) ==
    LET p == g.players[pi + 1]
        card_index == IndexOf(p.hand, md.cardId)
        n == Len(g.players)
    IN
    IF md.cardId # NoCard /\ card_index # 0 THEN
        LET card == p.hand[card_index]
            g1 == [g EXCEPT !.players[pi + 1].hand = RemoveAt(@, card_index),
                            !.face_up = @ \cup {card},
                            !.discard_pile = Append(@, card),
                            !.players[pi + 1].last_move = <<"Discarded", Rank(card), Suit(card)>>]
        IN IF Len(g1.players[pi + 1].hand) = 0
           THEN GameOver(g1, p.id, <<"Tonk Out!">>)
           ELSE LET nxt == (g1.current_player_index + 1) % n
                IN Success([g1 EXCEPT !.current_player_index = nxt,
                                      !.turn_count = @ + 1,
                                      !.turn_phase = "draw",
                                      !.players[nxt + 1].turns = @ + 1])
    ELSE Success(g)

\* mutant of ProcessTonk: any call below the penalty value wins
ProcessTonkWrongLimit(g, pi, md) ==
    LET p == g.players[pi + 1]
        hand_value == SumValues(p.hand)
    IN
    IF hand_value <= TonkPenalty
    THEN GameOver(g, p.id, <<"Tonk! (Hand value: ", hand_value, ")">>)
    ELSE Success([g EXCEPT !.players[pi + 1].score = @ + TonkPenalty,
                           !.current_player_index = (@ + 1) % Len(g.players),
                           !.turn_phase = "draw"])

\* mutant of ProcessTonk: a false call costs nothing
ProcessTonkNoPenalty(g, pi, md) ==
    LET p == g.players[pi + 1]
        hand_value == SumValues(p.hand)
    IN
    IF hand_value <= TonkLimit
    THEN GameOver(g, p.id, <<"Tonk! (Hand value: ", hand_value, ")">>)
    ELSE Success([g EXCEPT !.current_player_index = (@ + 1) % Len(g.players),
                           !.turn_phase = "draw"])

\* move_type == MoveType.TONK
ProcessTonk(g, pi, md) ==
    LET p == g.players[pi + 1]
        hand_value == SumValues(p.hand)
    IN
    IF hand_value <= TonkLimit
    THEN GameOver(g, p.id, <<"Tonk! (Hand value: ", hand_value, ")">>)
    ELSE Success([g EXCEPT !.players[pi + 1].score = @ + TonkPenalty,
                           !.current_player_index = (@ + 1) % Len(g.players),
                           !.turn_phase = "draw"])

\* mutant of ProcessDrop: the dropping player's score is left as it was
ProcessDropKeepsScore(g, pi, md) ==
    LET n == Len(g.players)
        g1 == [g EXCEPT !.players[pi + 1].has_dropped = TRUE,
                        !.players[pi + 1].last_move = <<"Dropped out">>]
        active_players == {i \in 1..n : ~g1.players[i].has_dropped}
    IN
    IF Cardinality(active_players) = 1
    THEN GameOver(g1, g1.players[CHOOSE i \in active_players : TRUE].id, <<"All other players dropped">>)
    ELSE IF active_players = {}
    THEN [Success(g1) EXCEPT !.hang = TRUE]
    ELSE LET k == CHOOSE k \in 1..n :
                     /\ ~g1.players[((pi + k) % n) + 1].has_dropped
                     /\ \A j \in 1..(k - 1) : g1.players[((pi + j) % n) + 1].has_dropped
         IN Success([g1 EXCEPT !.current_player_index = (pi + k) % n,
                               !.turn_phase = "draw"])

\* mutant of ProcessDrop: the game ends when at most two players are left, and
\* names the first of them
ProcessDropEndsEarly(g, pi, md) ==
    LET n == Len(g.players)
        g1 == [g EXCEPT !.players[pi + 1].has_dropped = TRUE,
                        !.players[pi + 1].last_move = <<"Dropped out">>,
                        !.players[pi + 1].score = SumValues(g.players[pi + 1].hand)]
        active_players == {i \in 1..n : ~g1.players[i].has_dropped}
    IN
    IF Cardinality(active_players) \in {1, 2}
    THEN GameOver(g1, g1.players[CHOOSE i \in active_players : \A j \in active_players : i <= j].id,
                  <<"All other players dropped">>)
    ELSE IF active_players = {}
    THEN [Success(g1) EXCEPT !.hang = TRUE]
    ELSE LET k == CHOOSE k \in 1..n :
                     /\ ~g1.players[((pi + k) % n) + 1].has_dropped
                     /\ \A j \in 1..(k - 1) : g1.players[((pi + j) % n) + 1].has_dropped
         IN Success([g1 EXCEPT !.current_player_index = (pi + k) % n,
                               !.turn_phase = "draw"])

\* mutant of ProcessDrop: the turn passes to the next seat, dropped or not
ProcessDropNoSkip(g, pi, md) ==
    LET n == Len(g.players)
        g1 == [g EXCEPT !.players[pi + 1].has_dropped = TRUE,
                        !.players[pi + 1].last_move = <<"Dropped out">>,
                        !.players[pi + 1].score = SumValues(g.players[pi + 1].hand)]
        active_players == {i \in 1..n : ~g1.players[i].has_dropped}
    IN
    IF Cardinality(active_players) = 1
    THEN GameOver(g1, g1.players[CHOOSE i \in active_players : TRUE].id, <<"All other players dropped">>)
    ELSE IF active_players = {}
    THEN [Success(g1) EXCEPT !.hang = TRUE]
    ELSE Success([g1 EXCEPT !.current_player_index = (pi + 1) % n,
                            !.turn_phase = "draw"])

\* move_type == MoveType.DROP
ProcessDrop(g, pi, md) ==
    LET n == Len(g.players)
        g1 == [g EXCEPT !.players[pi + 1].has_dropped = TRUE,
                        !.players[pi + 1].last_move = <<"Dropped out">>,
                        !.players[pi + 1].score = SumValues(g.players[pi + 1].hand)]
        active_players == {i \in 1..n : ~g1.players[i].has_dropped}
    IN
    IF Cardinality(active_players) = 1
    THEN GameOver(g1, g1.players[CHOOSE i \in active_players : TRUE].id, <<"All other players dropped">>)
    ELSE IF active_players = {}
    THEN \* "while game.players[next_index].has_dropped" never exits
         [Success(g1) EXCEPT !.hang = TRUE]
    ELSE LET k == CHOOSE k \in 1..n :
                     /\ ~g1.players[((pi + k) % n) + 1].has_dropped
                     /\ \A j \in 1..(k - 1) : g1.players[((pi + j) % n) + 1].has_dropped
         IN Success([g1 EXCEPT !.current_player_index = (pi + k) % n,
                               !.turn_phase = "draw"])

\* "for card_id in card_ids: ... spread_cards.append(player.hand.pop(card_index))"
RECURSIVE PopCards(_, _, _)
PopCards(hand, card_ids, spread_cards) ==
    IF card_ids = <<>> THEN [hand |-> hand, spread_cards |-> spread_cards]
    ELSE LET card_index == IndexOf(hand, Head(card_ids))
         IN IF card_index # 0
            THEN PopCards(RemoveAt(hand, card_index), Tail(card_ids),
                          Append(spread_cards, hand[card_index]))
            ELSE PopCards(hand, Tail(card_ids), spread_cards)

\* move_type == MoveType.CREATE_SPREAD
\* mutant of ProcessCreateSpread: the cards found are put down as a spread
\* however few they are
ProcessCreateSpreadAnySize(g, pi, md, id) ==
    LET p == g.players[pi + 1] IN
    IF Len(md.cards) >= MinSpread THEN
        LET r == PopCards(p.hand, md.cards, <<>>)
            g1 == [g EXCEPT !.players[pi + 1].hand = r.hand]
        IN IF Len(r.spread_cards) >= 1
           THEN Success([g1 EXCEPT
                    !.players[pi + 1].spreads =
                        Append(@, [id |-> id, cards |-> r.spread_cards, owner |-> p.id, type |-> "player"]),
                    !.players[pi + 1].last_move = <<"Created spread with ", Len(r.spread_cards), " cards">>])
           ELSE Success(g1)
    ELSE Success(g)

ProcessCreateSpread(g, pi, md, id) ==
    LET p == g.players[pi + 1] IN
    IF Len(md.cards) >= MinSpread THEN
        LET r == PopCards(p.hand, md.cards, <<>>)
            g1 == [g EXCEPT !.players[pi + 1].hand = r.hand]
        IN IF Len(r.spread_cards) >= MinSpread
           THEN Success([g1 EXCEPT
                    !.players[pi + 1].spreads =
                        Append(@, [id |-> id, cards |-> r.spread_cards, owner |-> p.id, type |-> "player"]),
                    !.players[pi + 1].last_move = <<"Created spread with ", Len(r.spread_cards), " cards">>])
           ELSE Success(g1)
    ELSE Success(g)

SpreadIndex(spreads, spread_id) ==
    IF \E i \in 1..Len(spreads) : spreads[i].id = spread_id
    THEN CHOOSE i \in 1..Len(spreads) :
            spreads[i].id = spread_id /\ \A j \in 1..(i - 1) : spreads[j].id # spread_id
    ELSE 0

\* move_type == MoveType.ADD_TO_SPREAD
ProcessAddToSpread(g, pi, md) ==
    LET p == g.players[pi + 1]
        card_index == IndexOf(p.hand, md.cardId)
    IN
    IF md.spreadId # NoSpread /\ md.cardId # NoCard /\ card_index # 0 THEN
        LET card == p.hand[card_index]
            g1 == [g EXCEPT !.players[pi + 1].hand = RemoveAt(@, card_index)]
            own == SpreadIndex(p.spreads, md.spreadId)
            tbl == SpreadIndex(g.table_spreads, md.spreadId)
        IN IF own # 0
           THEN Success([g1 EXCEPT !.players[pi + 1].spreads[own].cards = Append(@, card),
                                   !.players[pi + 1].last_move = <<"Added card to spread">>])
           ELSE IF tbl # 0
           THEN Success([g1 EXCEPT !.table_spreads[tbl].cards = Append(@, card),
                                   !.players[pi + 1].last_move = <<"Added card to spread">>])
           ELSE Success(g1)
    ELSE Success(g)

\* move_type == MoveType.HIT
ProcessHit(g, pi, md) ==
    LET p == g.players[pi + 1]
        card_index == IndexOf(p.hand, md.cardId)
    IN
    IF md.spreadId # NoSpread /\ md.cardId # NoCard /\ card_index # 0 THEN
        LET card == p.hand[card_index]
            g1 == [g EXCEPT !.players[pi + 1].hand = RemoveAt(@, card_index)]
            spread_index == SpreadIndex(g.table_spreads, md.spreadId)
        IN IF spread_index # 0
           THEN LET spread == g.table_spreads[spread_index]
                IN Success([g1 EXCEPT
                       !.table_spreads = RemoveAt(@, spread_index),
                       !.players[pi + 1].hand = (@ \o spread.cards) \o <<card>>,
                       !.players[pi + 1].last_move = <<"Hit a spread and took ", Len(spread.cards), " cards">>])
           ELSE Success(g1)
    ELSE Success(g)

\* mutant of process_move: a draw passes the turn to the next seat
process_move_draw_ends_turn(g, pi, move_type, md, id) ==
    CASE move_type = "draw" ->
            [ProcessDraw(g, pi, md) EXCEPT
                !.game.current_player_index = (pi + 1) % Len(g.players)]
      [] move_type = "discard" -> ProcessDiscard(g, pi, md)
      [] move_type = "tonk" -> ProcessTonk(g, pi, md)
      [] move_type = "drop" -> ProcessDrop(g, pi, md)
      [] move_type = "createSpread" -> ProcessCreateSpread(g, pi, md, id)
      [] move_type = "addToSpread" -> ProcessAddToSpread(g, pi, md)
      [] move_type = "hit" -> ProcessHit(g, pi, md)
      [] OTHER -> Success(g)

process_move(g, pi, move_type, md, id) ==
    CASE move_type = "draw" -> ProcessDraw(g, pi, md)
      [] move_type = "discard" -> ProcessDiscard(g, pi, md)
      [] move_type = "tonk" -> ProcessTonk(g, pi, md)
      [] move_type = "drop" -> ProcessDrop(g, pi, md)
      [] move_type = "createSpread" -> ProcessCreateSpread(g, pi, md, id)
      [] move_type = "addToSpread" -> ProcessAddToSpread(g, pi, md)
      [] move_type = "hit" -> ProcessHit(g, pi, md)
      [] OTHER -> Success(g)

(* -------------------------------------------------------------- make_move *)
\* next((i for i, p in enumerate(game.players) if p.id == playerId), -1)
PlayerIndex(g, playerId) ==
    IF \E i \in 1..Len(g.players) : g.players[i].id = playerId
    THEN (CHOOSE i \in 1..Len(g.players) : g.players[i].id = playerId) - 1
    ELSE -1

\* mutant of MoveError: the ownership check comes before the turn check
MoveErrorOwnerFirst(g, playerId, current_user) ==
    LET player_index == IF \E i \in 1..Len(g.players) : g.players[i].id = playerId
                        THEN (CHOOSE i \in 1..Len(g.players) : g.players[i].id = playerId) - 1
                        ELSE -1
    IN
    IF player_index = -1 THEN "Player not found"
    ELSE IF current_user # NoUser /\ g.players[player_index + 1].user_id # current_user
         THEN "You don't own this player"
    ELSE IF g.current_player_index # player_index THEN "Not your turn"
    ELSE "ok"

MoveError(g, playerId, current_user) ==
    LET player_index == PlayerIndex(g, playerId) IN
    IF player_index = -1 THEN "Player not found"
    ELSE IF g.current_player_index # player_index THEN "Not your turn"
    ELSE IF current_user # NoUser /\ g.players[player_index + 1].user_id # current_user
         THEN "You don't own this player"
    ELSE "ok"

\* the part of make_move after process_move has returned
AfterMove(r, playerId, move_type, md, now) ==
    LET g1 == [r.game EXCEPT !.last_move =
                  [playerId |-> playerId, moveType |-> move_type,
                   moveData |-> md, timestamp |-> now]]
    IN IF r.game_over
       THEN [g1 EXCEPT !.game_status = "game_over",
                       !.winner = r.winner,
                       !.win_reason = r.win_reason]
       ELSE g1

\* make_move, "Update user stats for all players": when the move ended the
\* game, each seat of a registered user adds one game played to that user, and
\* the winner's seat one game won; a move that never returns adds nothing
UpdateStats(us, r) ==
    IF r.hang \/ ~r.game_over THEN us
    ELSE [u \in DOMAIN us |->
            [games_played |-> us[u].games_played
                + Cardinality({i \in 1..Len(r.game.players) : r.game.players[i].user_id = u}),
             games_won |-> us[u].games_won
                + Cardinality({i \in 1..Len(r.game.players) :
                                 /\ r.game.players[i].user_id = u
                                 /\ r.game.players[i].id = r.winner})]]

\* make_move after process_move has returned r: last_move and the reply; a
\* request whose drop never leaves the seat search gets no reply
Reply(r, playerId, move_type, md, now) ==
    IF r.hang
    THEN [game |-> r.game, response |-> "no response"]
    ELSE [game |-> AfterMove(r, playerId, move_type, md, now), response |-> "success"]

\* make_move: the session after the request and the reply sent
make_move(g, playerId, current_user, move_type, md, now, id) ==
    IF MoveError(g, playerId, current_user) # "ok"
    THEN [game |-> g, response |-> MoveError(g, playerId, current_user)]
    ELSE Reply(process_move(g, PlayerIndex(g, playerId), move_type, md, id),
               playerId, move_type, md, now)

IsError(response) == response \notin {"success", "no response"}

(* ------------------------------------------------------- request inputs *)
PlayerIdArgs == {game.players[i].id : i \in 1..Len(game.players)} \cup {NoPlayer}
UserArgs == UserIds \cup {NoUser}
UnknownSpread == -1

\* card ids a client names: the newest card of the hand, or an id not in it
CardArgs(hand) == (IF hand = <<>> THEN {} ELSE {Last(hand)}) \cup {NoCard}

\* card-id lists a client names: the newest n cards of the hand, and the list of
\* the newest two followed by an unknown id or by a repeated id
IdLists(hand) ==
    {Popped(hand, n) : n \in 2..Min(MaxIds, Len(hand))}
      \cup {Append(Popped(hand, MinSpread - 1), x) :
               x \in IF Len(hand) >= MinSpread - 1 THEN {NoCard, Last(hand)} ELSE {}}

SpreadIds(g) ==
    UNION {{g.players[i].spreads[j].id : j \in 1..Len(g.players[i].spreads)} :
              i \in 1..Len(g.players)}
      \cup {g.table_spreads[j].id : j \in 1..Len(g.table_spreads)}
SpreadArgs == SpreadIds(game) \cup {UnknownSpread}

CurrentHand ==
    IF game.current_player_index < Len(game.players)
    THEN game.players[game.current_player_index + 1].hand ELSE <<>>

\* the data of a request whose move type reads none
NoData == MoveData("deck", NoCard, <<>>, NoSpread)

\* the move requests explored: type and data
MoveArgs ==
    {<<"draw", MoveData(source, NoCard, <<>>, NoSpread)>> : source \in Sources}
      \cup {<<"discard", MoveData("deck", cardId, <<>>, NoSpread)>> : cardId \in CardArgs(CurrentHand)}
      \cup {<<mt, NoData>> : mt \in {"tonk", "drop", "startGame"}}
      \cup {<<"createSpread", MoveData("deck", NoCard, cards, NoSpread)>> : cards \in IdLists(CurrentHand)}
      \cup {<<mt, MoveData("deck", cardId, <<>>, spreadId)>> :
               mt \in {"addToSpread", "hit"}, cardId \in CardArgs(CurrentHand) \ {NoCard},
               spreadId \in SpreadArgs}

(* ---------------------------------------------------------------- actions *)
JoinGame ==
    /\ ~hung
    /\ clock < MaxCalls
    /\ \E user \in UserArgs :
          \E out \in {join_game(game, user)} :
             /\ ~IsError(out.response)
             /\ game' = out.game
    /\ clock' = clock + 1
    /\ UNCHANGED <<uuid, hung, tasks, elsewhere>>

JoinRejected ==
    /\ ~hung
    /\ clock < MaxCalls
    /\ \E user \in UserArgs :
          \E out \in {join_game(game, user)} :
             /\ IsError(out.response)
             /\ game' = out.game
    /\ UNCHANGED <<clock, uuid, hung, tasks, elsewhere>>

StartGame ==
    /\ ~hung
    /\ clock < MaxCalls
    /\ \E current_user \in UserArgs :
          \E out \in {start_game(game, current_user)} :
             /\ ~IsError(out.response)
             /\ game' = out.game
    /\ clock' = clock + 1
    /\ UNCHANGED <<uuid, hung, tasks, elsewhere>>

StartRejected ==
    /\ ~hung
    /\ clock < MaxCalls
    /\ \E current_user \in UserArgs :
          \E out \in {start_game(game, current_user)} :
             /\ IsError(out.response)
             /\ game' = out.game
    /\ UNCHANGED <<clock, uuid, hung, tasks, elsewhere>>

\* a move request stopped by one of make_move's checks, which read neither
\* moveType nor moveData
MoveRejected ==
    /\ ~hung
    /\ clock < MaxCalls
    /\ \E playerId \in PlayerIdArgs, current_user \in UserArgs :
          \E out \in {make_move(game, playerId, current_user, "draw", NoData, clock + 1, uuid)} :
             /\ IsError(out.response)
             /\ game' = out.game
    /\ UNCHANGED <<clock, uuid, hung, tasks, elsewhere>>

\* a move request that passes make_move's checks and reaches process_move
ApplyMove(playerId, current_user, move_type, md) ==
    /\ ~hung
    /\ clock < MaxCalls
    /\ MoveError(game, playerId, current_user) = "ok"
    /\ \E r \in {process_move(game, PlayerIndex(game, playerId), move_type, md, uuid)} :
       \E out \in {Reply(r, playerId, move_type, md, clock + 1)} :
          /\ game' = out.game
          /\ hung' = (out.response = "no response")
          /\ clock' = IF out.response = "no response" THEN clock ELSE clock + 1
          /\ uuid' = IF SpreadIds(out.game) # SpreadIds(game) THEN uuid + 1 ELSE uuid
          /\ users' = UpdateStats(users, r)
          /\ UNCHANGED <<tasks, connections, apart>>

Draw ==
    \E playerId \in PlayerIdArgs, current_user \in UserArgs, source \in Sources :
        ApplyMove(playerId, current_user, "draw", MoveData(source, NoCard, <<>>, NoSpread))

Discard ==
    \E playerId \in PlayerIdArgs, current_user \in UserArgs, cardId \in CardArgs(CurrentHand) :
        ApplyMove(playerId, current_user, "discard", MoveData("deck", cardId, <<>>, NoSpread))

Tonk ==
    \E playerId \in PlayerIdArgs, current_user \in UserArgs :
        ApplyMove(playerId, current_user, "tonk", NoData)

Drop ==
    \E playerId \in PlayerIdArgs, current_user \in UserArgs :
        ApplyMove(playerId, current_user, "drop", NoData)

CreateSpread ==
    \E playerId \in PlayerIdArgs, current_user \in UserArgs, cards \in IdLists(CurrentHand) :
        ApplyMove(playerId, current_user, "createSpread", MoveData("deck", NoCard, cards, NoSpread))

AddToSpread ==
    \E playerId \in PlayerIdArgs, current_user \in UserArgs,
       cardId \in CardArgs(CurrentHand) \ {NoCard}, spreadId \in SpreadArgs :
        ApplyMove(playerId, current_user, "addToSpread", MoveData("deck", cardId, <<>>, spreadId))

Hit ==
    \E playerId \in PlayerIdArgs, current_user \in UserArgs,
       cardId \in CardArgs(CurrentHand) \ {NoCard}, spreadId \in SpreadArgs :
        ApplyMove(playerId, current_user, "hit", MoveData("deck", cardId, <<>>, spreadId))

\* a moveType process_move has no branch for
OtherMove ==
    \E playerId \in PlayerIdArgs, current_user \in UserArgs :
        ApplyMove(playerId, current_user, "startGame", NoData)

Next ==
    \/ JoinGame
    \/ JoinRejected
    \/ StartGame
    \/ StartRejected
    \/ MoveRejected
    \/ Draw
    \/ Discard
    \/ Tonk
    \/ Drop
    \/ CreateSpread
    \/ AddToSpread
    \/ Hit
    \/ OtherMove

Spec == Init /\ [][Next]_vars

(* ------------------------------------------------------------- properties *)
Hands(g) == [i \in 1..Len(g.players) |-> g.players[i].hand]
PlayerSpreads(g) == [i \in 1..Len(g.players) |-> g.players[i].spreads]

RECURSIVE Concat(_)
Concat(ss) == IF ss = <<>> THEN <<>> ELSE Head(ss) \o Concat(Tail(ss))

SpreadCards(spreads) == Concat([j \in 1..Len(spreads) |-> spreads[j].cards])

\* every card of the session, location by location
AllCards(g) ==
    g.deck \o g.discard_pile
      \o (IF g.under_card # NoCard THEN <<g.under_card>> ELSE <<>>)
      \o Concat(Hands(g))
      \o Concat([i \in 1..Len(g.players) |-> SpreadCards(g.players[i].spreads)])
      \o SpreadCards(g.table_spreads)

CardCount(g) == Len(AllCards(g))

\* the request of the move applied by the step, read from the last_move it wrote
Applied == game'.last_move # game.last_move
AppliedMove == game'.last_move
Mover == PlayerIndex(game, AppliedMove.playerId) + 1

\* C1: from a successful start on, deck + discard pile + under-card + all hands
\* + all spreads hold DeckSize (52) cards.
C1_CardConservation ==
    game.game_status # "lobby" => CardCount(game) = DeckSize

\* C2: no card id occurs twice across the deck, the discard pile, the under-card
\* slot, all hands and all spreads.
NoRepeats(s) == Cardinality(Range(s)) = Len(s)

C2_NoCardDuplicated ==
    \A all \in {AllCards(game)} : NoRepeats(all)

\* C2 witness: cards sit in a hand, a spread, the discard pile and the deck at once
C2_Witness ==
    /\ game.game_status = "playing"
    /\ \E i \in 1..Len(game.players) :
          game.players[i].spreads # <<>> /\ Len(game.players[i].hand) > HandSize - MinSpread
    /\ Len(game.discard_pile) > 1
    /\ game.under_card = NoCard

\* C3: a move request naming a seated player whose seat is not
\* current_player_index is answered "Not your turn" whatever its type and
\* sender, and leaves the session as it was.
C3_NotYourTurn ==
    \A playerId \in PlayerIdArgs \ {NoPlayer} :
        PlayerIndex(game, playerId) # game.current_player_index =>
            \A current_user \in UserArgs, move_type \in MoveTypes :
                \E out \in {make_move(game, playerId, current_user, move_type, NoData, clock + 1, uuid)} :
                    out.response = "Not your turn" /\ out.game = game

\* C3 witness: a game under way in which a seat other than the current one,
\* owned by a user, is refused for its owner and for a stranger alike
C3_Witness ==
    /\ game.game_status = "playing"
    /\ game.last_move # NoMove
    /\ \E i \in 1..Len(game.players) :
          /\ i - 1 # game.current_player_index
          /\ game.players[i].user_id # NoUser
          /\ \A current_user \in UserArgs :
                make_move(game, game.players[i].id, current_user, "discard",
                          MoveData("deck", Last(game.players[i].hand), <<>>, NoSpread),
                          clock + 1, uuid).response = "Not your turn"

\* C4: once a move has ended the game (game_status = "game_over"), no later
\* request is applied: every step leaves the session as it was.
C4_TerminalFinality ==
    [][game.game_status = "game_over" => game' = game]_vars

\* C5: once game_status = "game_over", status, winner and win_reason stay as they
\* are, and hands, deck, discard pile, under-card and spreads no longer change.
C5_TerminalResultStable ==
    [][game.game_status = "game_over" =>
          /\ game'.game_status = "game_over"
          /\ game'.winner = game.winner
          /\ game'.win_reason = game.win_reason
          /\ Hands(game') = Hands(game)
          /\ PlayerSpreads(game') = PlayerSpreads(game)
          /\ game'.deck = game.deck
          /\ game'.discard_pile = game.discard_pile
          /\ game'.under_card = game.under_card
          /\ game'.table_spreads = game.table_spreads]_vars

\* C6: while game_status = "lobby" every hand and every spread list is empty and
\* the deck holds all DeckSize (52) cards, no move having been applied.
C6_LobbyInvariant ==
    game.game_status = "lobby" =>
        /\ \A i \in 1..Len(game.players) :
              game.players[i].hand = <<>> /\ game.players[i].spreads = <<>>
        /\ game.table_spreads = <<>>
        /\ Len(game.deck) = DeckSize
        /\ game.last_move = NoMove

\* C7: game_status only moves lobby -> playing -> game_over.
C7_StatusOrder ==
    [][\/ game'.game_status = game.game_status
       \/ game.game_status = "lobby" /\ game'.game_status = "playing"
       \/ game.game_status = "playing" /\ game'.game_status = "game_over"]_vars

CurrentDropped(g) ==
    /\ g.current_player_index < Len(g.players)
    /\ g.players[g.current_player_index + 1].has_dropped

\* C8: in a game of three or more players under way, a move made while the
\* current seat has not dropped never passes the turn to a seat that has.
C8_TurnNeverToDropped ==
    [][(/\ game.game_status = "playing"
        /\ game'.game_status = "playing"
        /\ Len(game.players) >= 3
        /\ ~CurrentDropped(game)) => ~CurrentDropped(game')]_vars

\* the failure cases of a move by the current player, as the design lists them
EmptySource(g, md) ==
    \/ md.source = "deck" /\ g.deck = <<>>
    \/ md.source = "discard" /\ g.discard_pile = <<>>
    \/ md.source = "under" /\ g.under_card = NoCard
CardNotInHand(g, pi, md) == IndexOf(g.players[pi].hand, md.cardId) = 0
ResolvedCards(g, pi, md) == Range(md.cards) \cap Range(g.players[pi].hand)
MoveShouldFail(g, pi, m) ==
    \/ m.moveType = "draw" /\ EmptySource(g, m.moveData)
    \/ m.moveType \in {"discard", "addToSpread", "hit"} /\ CardNotInHand(g, pi, m.moveData)
    \/ m.moveType = "addToSpread"
         /\ SpreadIndex(g.players[pi].spreads, m.moveData.spreadId) = 0
         /\ SpreadIndex(g.table_spreads, m.moveData.spreadId) = 0
    \/ m.moveType = "hit" /\ SpreadIndex(g.table_spreads, m.moveData.spreadId) = 0
    \/ m.moveType = "createSpread" /\ Cardinality(ResolvedCards(g, pi, m.moveData)) < MinSpread

\* C9: in a game under way, a move that meets one of the failure cases (empty
\* source, card not in hand, spread not found, invalid spread size) is not
\* applied: it is not recorded as the last move and the session stays as it was.
C9_FailureAtomicity ==
    [][(/\ game.game_status = "playing"
        /\ Applied
        /\ MoveShouldFail(game, Mover, AppliedMove)) => game' = game]_vars

\* C10: a createSpread whose id list resolves to fewer than MinSpread (3)
\* distinct cards of the acting player's hand leaves that hand and the spreads
\* as they were.
C10_InvalidSpreadKeepsHand ==
    [][(/\ Applied
        /\ AppliedMove.moveType = "createSpread"
        /\ Cardinality(ResolvedCards(game, Mover, AppliedMove.moveData)) < MinSpread)
         => /\ Hands(game') = Hands(game)
            /\ PlayerSpreads(game') = PlayerSpreads(game)]_vars

\* the spreads other seats have created, as the move's spreadId may name them
OthersSpreadIds(g, pi) ==
    UNION {{g.players[i].spreads[j].id : j \in 1..Len(g.players[i].spreads)} :
              i \in (1..Len(g.players)) \ {pi}}
SpreadWithId(g, spread_id) ==
    CHOOSE sp \in UNION {Range(g.players[i].spreads) : i \in 1..Len(g.players)}
                    \cup Range(g.table_spreads) : sp.id = spread_id

\* C11: in a game under way, an addToSpread naming a card of the acting player's hand and a spreadId
\* that is neither one of that player's spreads nor a table spread leaves the
\* card in the hand: no hand changes.
C11_UnknownSpreadKeepsCard ==
    [][(/\ game.game_status = "playing"
        /\ Applied
        /\ AppliedMove.moveType = "addToSpread"
        /\ ~CardNotInHand(game, Mover, AppliedMove.moveData)
        /\ SpreadIndex(game.players[Mover].spreads, AppliedMove.moveData.spreadId) = 0
        /\ SpreadIndex(game.table_spreads, AppliedMove.moveData.spreadId) = 0)
         => Hands(game') = Hands(game)]_vars

\* C12: in a game under way, a hit with a card of the acting player's hand on a spread another player
\* created removes that spread and puts its cards and the hitting card in the
\* hitter's hand; a hit on a spreadId that names no spread leaves the hitting
\* card in the hand.
C12_HitCapturesSpread ==
    [][(/\ game.game_status = "playing"
        /\ Applied
        /\ AppliedMove.moveType = "hit"
        /\ ~CardNotInHand(game, Mover, AppliedMove.moveData))
         => /\ AppliedMove.moveData.spreadId \in OthersSpreadIds(game, Mover)
                => /\ AppliedMove.moveData.spreadId \notin SpreadIds(game')
                   /\ Range(game'.players[Mover].hand)
                        = Range(game.players[Mover].hand)
                            \cup Range(SpreadWithId(game, AppliedMove.moveData.spreadId).cards)
            /\ AppliedMove.moveData.spreadId \notin SpreadIds(game)
                => game'.players[Mover].hand = game.players[Mover].hand]_vars

\* the card a draw takes: the top of the deck, the top of the discard pile, or
\* the under-card
SourceTop(g, md) ==
    IF md.source = "deck" THEN Last(g.deck)
    ELSE IF md.source = "discard" THEN Last(g.discard_pile)
    ELSE g.under_card

\* g1 is g with exactly the card on top of the named source moved to the end of
\* the hand of seat pi, every other card where it was
OneCardDrawn(g, g1, pi, md) ==
    /\ Hands(g1) = [Hands(g) EXCEPT ![pi] = Append(@, SourceTop(g, md))]
    /\ g1.deck = IF md.source = "deck" THEN Front(g.deck) ELSE g.deck
    /\ g1.discard_pile = IF md.source = "discard" THEN Front(g.discard_pile) ELSE g.discard_pile
    /\ g1.under_card = IF md.source = "under" THEN NoCard ELSE g.under_card
    /\ PlayerSpreads(g1) = PlayerSpreads(g)
    /\ g1.table_spreads = g.table_spreads

\* C13: a draw from a source that holds a card moves exactly that card to the
\* acting player's hand and sets turn_phase to "action": the hand grows by one,
\* the source shrinks by one, every other card location is unchanged.
C13_DrawMovesOneCard ==
    [][(/\ Applied
        /\ AppliedMove.moveType = "draw"
        /\ ~EmptySource(game, AppliedMove.moveData))
         => /\ OneCardDrawn(game, game', Mover, AppliedMove.moveData)
            /\ game'.turn_phase = "action"]_vars

\* C13 witness: in a game under way the last move is a draw from the discard
\* pile, which is now empty, and the drawer holds one card more than was dealt
C13_Witness ==
    /\ game.game_status = "playing"
    /\ game.last_move.moveType = "draw"
    /\ game.last_move.moveData.source = "discard"
    /\ game.discard_pile = <<>>
    /\ game.turn_phase = "action"
    /\ Len(game.players[PlayerIndex(game, game.last_move.playerId) + 1].hand) = HandSize + 1

\* C14: in a game under way, a draw that names the deck while the deck is empty,
\* or the discard pile while the pile is empty, is not answered with success
\* (an applied move is one answered with success).
C14_EmptySourceFails ==
    [][~(/\ game.game_status = "playing"
         /\ Applied
         /\ AppliedMove.moveType = "draw"
         /\ \/ AppliedMove.moveData.source = "deck" /\ game.deck = <<>>
            \/ AppliedMove.moveData.source = "discard" /\ game.discard_pile = <<>>)]_vars

\* can_draw_under of process_move, for seat pi
CanDrawUnder(g, pi) == g.allow_under_card_any_turn \/ g.players[pi].turns > 0

\* C15: a draw with source "under" while an under-card is there is answered with
\* success only if allow_under_card_any_turn is set or the acting player's
\* turns counter is above 0; it then empties the under-card slot, puts the card
\* in the player's hand and sets the player's has_drawn_from_under.
C15_UnderCardDraw ==
    [][(/\ Applied
        /\ AppliedMove.moveType = "draw"
        /\ AppliedMove.moveData.source = "under"
        /\ game.under_card # NoCard)
         => /\ CanDrawUnder(game, Mover)
            /\ game'.under_card = NoCard
            /\ game'.players[Mover].has_drawn_from_under
            /\ game'.players[Mover].hand = Append(game.players[Mover].hand, game.under_card)]_vars

\* C15 witness: in a game under way the last move drew the under-card: the slot
\* is empty, the drawer is marked and holds the card, on its first turn
C15_Witness ==
    /\ game.game_status = "playing"
    /\ game.last_move.moveType = "draw"
    /\ game.last_move.moveData.source = "under"
    /\ game.under_card = NoCard
    /\ \E i \in 1..Len(game.players) :
          /\ game.players[i].id = game.last_move.playerId
          /\ game.players[i].has_drawn_from_under
          /\ game.players[i].turns = 0
          /\ Len(game.players[i].hand) = HandSize + 1

\* C16: a discard of a card of the acting player's hand that leaves the hand
\* non-empty puts the card on top of the discard pile, sets
\* current_player_index to (current_player_index + 1) % number of seats, adds 1
\* to turn_count, sets turn_phase to "draw" and adds 1 to the turns counter of
\* the new current player.
C16_DiscardPassesTurn ==
    [][(/\ Applied
        /\ AppliedMove.moveType = "discard"
        /\ ~CardNotInHand(game, Mover, AppliedMove.moveData)
        /\ Len(game.players[Mover].hand) > 1)
         => /\ game'.discard_pile = Append(game.discard_pile, AppliedMove.moveData.cardId)
            /\ AppliedMove.moveData.cardId \notin Range(game'.players[Mover].hand)
            /\ game'.current_player_index
                 = (game.current_player_index + 1) % Len(game.players)
            /\ game'.turn_count = game.turn_count + 1
            /\ game'.turn_phase = "draw"
            /\ \A i \in 1..Len(game.players) :
                  game'.players[i].turns
                    = game.players[i].turns
                        + (IF i = game'.current_player_index + 1 THEN 1 ELSE 0)]_vars

\* C16 witness: in a game under way the first seat has drawn and discarded: the
\* turn is with the second seat, on its first counted turn, in turn 2
C16_Witness ==
    /\ game.game_status = "playing"
    /\ game.last_move.moveType = "discard"
    /\ game.last_move.playerId = game.players[1].id
    /\ Len(game.players[1].hand) = HandSize
    /\ game.current_player_index = 1
    /\ game.players[2].turns = 1
    /\ game.turn_count = 2
    /\ game.turn_phase = "draw"
    /\ Len(game.discard_pile) = 2

\* C17: in a game under way, a discard naming a card that is not in the acting
\* player's hand is not answered with success (an applied move is one answered
\* with success).
C17_DiscardUnknownCardFails ==
    [][~(/\ game.game_status = "playing"
         /\ Applied
         /\ AppliedMove.moveType = "discard"
         /\ CardNotInHand(game, Mover, AppliedMove.moveData))]_vars

\* the session's result names seat pi as winner by Tonk Out
WonByTonkOut(g, pi) ==
    /\ g.game_status = "game_over"
    /\ g.winner = g.players[pi].id
    /\ g.win_reason = <<"Tonk Out!">>

\* C18: a discard of the last card of the acting player's hand ends the game:
\* game_status becomes "game_over" with that player as winner and reason
\* "Tonk Out!", and current_player_index stays where it was.
C18_TonkOut ==
    [][(/\ Applied
        /\ AppliedMove.moveType = "discard"
        /\ ~CardNotInHand(game, Mover, AppliedMove.moveData)
        /\ Len(game.players[Mover].hand) = 1)
         => /\ game'.players[Mover].hand = <<>>
            /\ WonByTonkOut(game', Mover)
            /\ game'.current_player_index = game.current_player_index
            /\ game'.turn_count = game.turn_count]_vars

\* C18 witness: a dealt game ended by Tonk Out: the winner's hand is empty, the
\* last move is its discard, another seat still holds its dealt hand
C18_Witness ==
    /\ game.last_move.moveType = "discard"
    /\ \E i \in 1..Len(game.players) :
          /\ game.players[i].id = game.last_move.playerId
          /\ game.players[i].hand = <<>>
          /\ game.players[i].spreads # <<>>
          /\ game.current_player_index = i - 1
          /\ WonByTonkOut(game, i)
    /\ \E j \in 1..Len(game.players) : Len(game.players[j].hand) = HandSize

\* the session's result names seat pi as winner by a tonk call on hand value v
WonByTonk(g, pi, v) ==
    /\ g.game_status = "game_over"
    /\ g.winner = g.players[pi].id
    /\ g.win_reason = <<"Tonk! (Hand value: ", v, ")">>

\* C19: a tonk call made before the game is over ends it, with the caller as
\* winner and reason "Tonk! ...", exactly when the values of the caller's hand
\* sum to at most TonkLimit (5); otherwise the status stays as it was.
C19_TonkCall ==
    [][(/\ game.game_status # "game_over"
        /\ Applied
        /\ AppliedMove.moveType = "tonk")
         => IF SumValues(game.players[Mover].hand) <= TonkLimit
            THEN WonByTonk(game', Mover, SumValues(game.players[Mover].hand))
            ELSE /\ game'.game_status = game.game_status
                 /\ game'.winner = game.winner]_vars

\* C19 witness: a dealt game won by a tonk call on a hand that holds cards
C19_Witness ==
    /\ game.last_move.moveType = "tonk"
    /\ \E i \in 1..Len(game.players) :
          /\ game.players[i].id = game.last_move.playerId
          /\ game.players[i].hand # <<>>
          /\ WonByTonk(game, i, SumValues(game.players[i].hand))
    /\ \E j \in 1..Len(game.players) : Len(game.players[j].hand) = HandSize

\* C20: in a game under way, a tonk call on a hand whose values sum to more than
\* TonkLimit (5) adds TonkPenalty (10) to the caller's score, passes the turn to
\* the next seat with turn_phase "draw", keeps the status and moves no card.
C20_FalseTonk ==
    [][(/\ game.game_status = "playing"
        /\ Applied
        /\ AppliedMove.moveType = "tonk"
        /\ SumValues(game.players[Mover].hand) > TonkLimit)
         => /\ game'.players[Mover].score = game.players[Mover].score + TonkPenalty
            /\ \A i \in (1..Len(game.players)) \ {Mover} :
                  game'.players[i].score = game.players[i].score
            /\ game'.current_player_index
                 = (game.current_player_index + 1) % Len(game.players)
            /\ game'.turn_phase = "draw"
            /\ game'.game_status = "playing"
            /\ game'.deck = game.deck
            /\ game'.discard_pile = game.discard_pile
            /\ game'.under_card = game.under_card
            /\ Hands(game') = Hands(game)
            /\ PlayerSpreads(game') = PlayerSpreads(game)
            /\ game'.table_spreads = game.table_spreads]_vars

\* C20 witness: in a game under way the first seat has drawn and then called
\* tonk falsely: it carries the penalty and the turn is with the second seat
C20_Witness ==
    /\ game.game_status = "playing"
    /\ game.last_move.moveType = "tonk"
    /\ game.last_move.playerId = game.players[1].id
    /\ game.players[1].score = TonkPenalty
    /\ Len(game.players[1].hand) = HandSize + 1
    /\ game.current_player_index = 1
    /\ game.turn_phase = "draw"

\* the step runs the drop branch of process_move: an applied drop, or the drop
\* whose seat search never ends; the dropper is the seat whose turn it was
DropStep ==
    \/ Applied /\ AppliedMove.moveType = "drop"
    \/ ~hung /\ hung'
Dropper == game.current_player_index + 1

\* C21: a drop sets the dropping player's has_dropped, sets its score to the sum
\* of the values of the cards in its hand, and moves no card: every hand, the
\* deck, the discard pile, the under-card and the spreads stay as they were.
C21_DropKeepsHand ==
    [][DropStep
         => /\ game'.players[Dropper].has_dropped
            /\ game'.players[Dropper].score = SumValues(game.players[Dropper].hand)
            /\ Hands(game') = Hands(game)
            /\ game'.deck = game.deck
            /\ game'.discard_pile = game.discard_pile
            /\ game'.under_card = game.under_card
            /\ PlayerSpreads(game') = PlayerSpreads(game)]_vars

\* C21 witness: in a game under way the last move is a drop by a player who
\* holds the dealt hand, is marked dropped and scores the value of that hand
C21_Witness ==
    /\ game.game_status = "playing"
    /\ game.last_move.moveType = "drop"
    /\ \E i \in 1..Len(game.players) :
          /\ game.players[i].id = game.last_move.playerId
          /\ game.players[i].has_dropped
          /\ Len(game.players[i].hand) = HandSize
          /\ game.players[i].score = SumValues(game.players[i].hand)
          /\ game.players[i].score > 0

\* seats that have not dropped
ActiveSeats(g) == {i \in 1..Len(g.players) : ~g.players[i].has_dropped}

\* the session's result names seat pi as the winner left when all others dropped
WonByDrops(g, pi) ==
    /\ g.game_status = "game_over"
    /\ g.winner = g.players[pi].id
    /\ g.win_reason = <<"All other players dropped">>

\* C22: a drop made before the game is over ends it exactly when it leaves
\* exactly one seat that has not dropped; the winner is then that seat and the
\* reason "All other players dropped".
C22_DropEndsGame ==
    [][(game.game_status # "game_over" /\ DropStep)
         => IF Cardinality(ActiveSeats(game')) = 1
            THEN \A i \in ActiveSeats(game') : WonByDrops(game', i)
            ELSE /\ game'.game_status = game.game_status
                 /\ game'.winner = game.winner]_vars

\* C22 witness: a 3-player game under way in which the first two seats dropped
\* one after the other: the game is over and the third seat has won
C22_Witness ==
    /\ Len(game.players) = 3
    /\ game.last_move.moveType = "drop"
    /\ game.last_move.playerId = game.players[2].id
    /\ ActiveSeats(game) = {3}
    /\ WonByDrops(game, 3)
    /\ \A i \in 1..3 : Len(game.players[i].hand) = HandSize

(* ------------------------------------------- the turn passing round the table *)
\* requests applied to the session in one behaviour of SpecTurns
MaxTurnCalls == 5

\* a move request of the player whose turn it is, applied by make_move
TurnMove(move_type, md) ==
    /\ ~hung
    /\ clock < MaxTurnCalls
    /\ game.current_player_index < Len(game.players)
    /\ \E current_user \in UserArgs :
          /\ MoveError(game, game.players[game.current_player_index + 1].id, current_user) = "ok"
          /\ \E r \in {process_move(game, game.current_player_index, move_type, md, uuid)} :
             \E out \in {Reply(r, game.players[game.current_player_index + 1].id,
                               move_type, md, clock + 1)} :
                /\ game' = out.game
                /\ hung' = (out.response = "no response")
                /\ clock' = IF out.response = "no response" THEN clock ELSE clock + 1
                /\ uuid' = IF SpreadIds(out.game) # SpreadIds(game) THEN uuid + 1 ELSE uuid
                /\ users' = UpdateStats(users, r)
                /\ UNCHANGED <<tasks, connections, apart>>

TurnsStart ==
    /\ ~hung
    /\ clock < MaxTurnCalls
    /\ \E current_user \in UserArgs :
          \E out \in {start_game(game, current_user)} :
             /\ ~IsError(out.response)
             /\ game' = out.game
    /\ clock' = clock + 1
    /\ UNCHANGED <<uuid, hung, tasks, elsewhere>>

TurnsDrop ==
    /\ ~hung
    /\ TurnMove("drop", NoData)

TurnsDiscard ==
    \E cardId \in CardArgs(CurrentHand) \ {NoCard} :
        TurnMove("discard", MoveData("deck", cardId, <<>>, NoSpread))

NextTurns == TurnsStart \/ TurnsDrop \/ TurnsDiscard

SpecTurns == Init /\ [][NextTurns]_vars

\* the first seat after seat pi (1-based), in wrapping seat order, that has not
\* dropped, as a 0-based index
FirstActiveAfter(g, pi) ==
    LET n == Len(g.players)
        after == [k \in 1..n |-> ((pi - 1 + k) % n) + 1]
        first == CHOOSE k \in 1..n :
                    /\ after[k] \in ActiveSeats(g)
                    /\ \A j \in 1..(k - 1) : after[j] \notin ActiveSeats(g)
    IN after[first] - 1

\* C23: an applied drop that leaves two or more seats that have not dropped sets
\* current_player_index to the first seat after the dropper, in wrapping seat
\* order, that has not dropped, and sets turn_phase to "draw".
C23_DropPassesTurn ==
    [][(/\ Applied
        /\ AppliedMove.moveType = "drop"
        /\ Cardinality(ActiveSeats(game')) >= 2)
         => /\ game'.current_player_index = FirstActiveAfter(game', Dropper)
            /\ game'.turn_phase = "draw"]_vars

\* C23 witness: in a 4-player game under way the last seat drops while the
\* first seat has dropped already: the turn skips seat 1 and is with seat 2
C23_Witness ==
    /\ game.game_status = "playing"
    /\ Len(game.players) = 4
    /\ game.last_move.moveType = "drop"
    /\ game.last_move.playerId = game.players[4].id
    /\ game.players[1].has_dropped
    /\ game.players[4].has_dropped
    /\ game.current_player_index = 1
    /\ game.turn_phase = "draw"

\* the step is a successful start: start_game alone sets game_status "playing"
StartStep == game.game_status = "lobby" /\ game'.game_status = "playing"

\* C24: after a successful start of a lobby session with n players every player
\* holds exactly HandSize (5) cards, the discard pile holds exactly 1 card, the
\* under-card is set, the deck holds DeckSize - HandSize * n - 2 cards, and
\* current_player_index = 0, turn_phase = "draw", turn_count = 1.
C24_StartDeals ==
    [][StartStep
         => /\ Len(game.players) \in 2..max_players
            /\ \A i \in 1..Len(game'.players) : Len(game'.players[i].hand) = HandSize
            /\ Len(game'.discard_pile) = 1
            /\ game'.under_card # NoCard
            /\ Len(game'.deck) = DeckSize - HandSize * Len(game.players) - 2
            /\ game'.current_player_index = 0
            /\ game'.turn_phase = "draw"
            /\ game'.turn_count = 1]_vars

\* the caller passes the creator check of start_game
MayStart(g, current_user) ==
    g.creator_id = NoUser \/ current_user = NoUser \/ g.creator_id = current_user

\* a start request on a session with fewer than 2 players, or not in lobby, is
\* refused and leaves the session as it was; the refusal names the cause
StartRefused ==
    \A current_user \in UserArgs :
        \E out \in {start_game(game, current_user)} :
            /\ (Len(game.players) < 2 \/ game.game_status # "lobby")
                 => IsError(out.response) /\ out.game = game
            /\ (MayStart(game, current_user) /\ Len(game.players) < 2)
                 => out.response = "Need at least 2 players"
            /\ (MayStart(game, current_user) /\ Len(game.players) >= 2
                  /\ game.game_status # "lobby")
                 => out.response = "Game already started"

\* C25: start is refused with "Need at least 2 players" when fewer than 2 are
\* seated and with "Game already started" when the status is not "lobby",
\* without changing the session; and a session that has left "lobby" never
\* returns to it, so that start succeeds, and deals, at most once.
C25_StartOnce ==
    /\ []StartRefused
    /\ [][game.game_status # "lobby" => game'.game_status # "lobby" /\ ~StartStep]_vars

\* C25 witness: a game under way in which moves were made, where a further
\* start by the creator or by anybody is refused
C25_Witness ==
    /\ game.game_status = "playing"
    /\ game.last_move # NoMove
    /\ Len(game.deck) < DeckSize - HandSize * Len(game.players) - 2
    /\ \A current_user \in UserArgs :
          start_game(game, current_user).response = "Game already started"

\* the k-th card from the top of deck d
FromTop(d, k) == d[Len(d) + 1 - k]

\* C26: a start gives the player at seat i (counted from 0) the HandSize (5)
\* consecutive cards 5i+1 .. 5i+5 from the top of the deck, in that order, seat
\* after seat; the next card from the top goes on the discard pile and the one
\* after it becomes the under-card.
C26_DealOrder ==
    [][StartStep
         => LET n == Len(game.players) IN
            /\ \A i \in 0..(n - 1) :
                  game'.players[i + 1].hand
                    = game.players[i + 1].hand
                        \o [k \in 1..HandSize |-> FromTop(game.deck, HandSize * i + k)]
            /\ game'.discard_pile
                 = Append(game.discard_pile, FromTop(game.deck, HandSize * n + 1))
            /\ game'.under_card = FromTop(game.deck, HandSize * n + 2)
            /\ game'.deck = SubSeq(game.deck, 1, Len(game.deck) - HandSize * n - 2)]_vars

\* C26 witness: a 3-player game just started from the deck as built: the seats
\* hold the three runs of five cards from the top, then discard and under-card
C26_Witness ==
    /\ game.game_status = "playing"
    /\ game.last_move = NoMove
    /\ Len(game.players) = 3
    /\ game.players[1].hand = <<52, 51, 50, 49, 48>>
    /\ game.players[2].hand = <<47, 46, 45, 44, 43>>
    /\ game.players[3].hand = <<42, 41, 40, 39, 38>>
    /\ game.discard_pile = <<37>>
    /\ game.under_card = 36

Seated(g, user) == user # NoUser /\ \E i \in 1..Len(g.players) : g.players[i].user_id = user
PlayerIds(g) == [i \in 1..Len(g.players) |-> g.players[i].id]

\* what a join request gets, by the state it meets
JoinOutcome ==
    \A user \in UserArgs :
        \E out \in {join_game(game, user)} :
            IF game.game_status # "lobby"
            THEN out.response = "Game already started" /\ out.game = game
            ELSE IF Len(game.players) >= max_players
            THEN out.response = "Game is full" /\ out.game = game
            ELSE IF Seated(game, user)
            THEN out.response = "You are already in this game" /\ out.game = game
            ELSE /\ out.response = "success"
                 /\ Len(out.game.players) = Len(game.players) + 1
                 /\ SubSeq(out.game.players, 1, Len(game.players)) = game.players
                 /\ Last(out.game.players).user_id = user
                 /\ Last(out.game.players).hand = <<>>
                 /\ Last(out.game.players).spreads = <<>>
                 /\ out.game = [game EXCEPT !.players = out.game.players]

\* C27: a join is refused with "Game already started" when the status is not
\* "lobby", with "Game is full" when max_players are seated, and with "You are
\* already in this game" when the joining user is seated, each time leaving the
\* session as it was; otherwise it appends exactly one player with empty hand
\* and spreads. Once the session has left "lobby" the list of players is fixed.
C27_JoinRules ==
    /\ []JoinOutcome
    /\ [][game.game_status # "lobby" => PlayerIds(game') = PlayerIds(game)]_vars

\* C27 witness: a lobby in which a user has joined after creation: that user is
\* now refused as already seated, while an anonymous join is still possible
C27_Witness ==
    /\ game.game_status = "lobby"
    /\ clock > 0
    /\ \E i \in 2..Len(game.players) : game.players[i].user_id \in UserIds
    /\ \A user \in UserIds : join_game(game, user).response = "You are already in this game"
    /\ join_game(game, NoUser).response = "success"

\* C28: a session as create_game has registered it (no request applied yet) has
\* at least one player, status "lobby", a deck of DeckSize (52) cards holding
\* every (suit, rank) pair once, empty hands and spreads, and its players in
\* list order: a request with no players registers no session.
C28_CreatedSession ==
    clock = 0 =>
        /\ Len(game.players) >= 1
        /\ game.game_status = "lobby"
        /\ Len(game.deck) = DeckSize
        /\ {<<Suit(c), Rank(c)>> : c \in Range(game.deck)}
             = {<<Suits[i], Ranks[j]>> : i \in 1..NumSuits, j \in 1..NumRanks}
        /\ \A i \in 1..Len(game.players) :
              /\ game.players[i].hand = <<>>
              /\ game.players[i].spreads = <<>>
              /\ game.players[i].id = i

\* C29: in a game under way a draw that finds a card is applied only while
\* turn_phase = "draw", and a discard, createSpread, addToSpread or hit that
\* names cards of the hand, a tonk or a drop only while turn_phase = "action".
C29_PhaseLegality ==
    [][(/\ game.game_status = "playing"
        /\ Applied
        /\ ~MoveShouldFail(game, Mover, AppliedMove))
         => /\ AppliedMove.moveType = "draw" => game.turn_phase = "draw"
            /\ AppliedMove.moveType
                 \in {"discard", "createSpread", "addToSpread", "hit", "tonk", "drop"}
                 => game.turn_phase = "action"]_vars

(* ------------------------------------------- requests handled concurrently *)
\* make_move is a coroutine on the server's one event loop: another request
\* runs only while this one waits, and the only wait in the handler is
\* "await broadcast_game_state(game_id)" after the move has been applied.
\* A handler stands before its checks ("check"), between its checks and
\* process_move ("process"), at the await ("broadcast"), or has replied ("done").

\* json.dumps of the snapshot: game.model_dump() keeps created_at as a datetime
\* object, for which json.dumps has no encoding and raises TypeError
SnapshotIsJson == FALSE

\* broadcast_game_state: nothing to do for a session without a websocket list;
\* otherwise the snapshot is encoded and sent to every websocket of the list,
\* a send that raises being passed over
broadcast_game_state(conns) ==
    IF ~conns.listed THEN [connections |-> conns, raised |-> FALSE]
    ELSE IF ~SnapshotIsJson THEN [connections |-> conns, raised |-> TRUE]
    ELSE [connections |->
             [conns EXCEPT !.sockets =
                 [i \in DOMAIN conns.sockets |->
                     IF conns.sockets[i].open
                     THEN [conns.sockets[i] EXCEPT !.received = @ + 1]
                     ELSE conns.sockets[i]]],
          raised |-> FALSE]

\* mutant of Suspends: the handler can be left at any of its steps
SuspendsEverywhere(pc) == TRUE

Suspends(pc) == pc = "broadcast"

\* everything the handlers share, with the requests in flight
Shared ==
    [game |-> game, clock |-> clock, uuid |-> uuid, hung |-> hung, tasks |-> tasks,
     connections |-> connections, users |-> users]

\* one step of the handler of request t
TaskStep(st, t) ==
    LET task == st.tasks[t] IN
    CASE task.pc = "check" ->
            LET error == MoveError(st.game, task.playerId, task.current_user) IN
            IF error # "ok"
            THEN [st EXCEPT !.tasks[t].pc = "done", !.tasks[t].response = error]
            ELSE [st EXCEPT !.tasks[t].pc = "process",
                            !.tasks[t].player_index = PlayerIndex(st.game, task.playerId),
                            !.tasks[t].checked = st.clock]
      [] task.pc = "process" ->
            LET r == process_move(st.game, task.player_index, task.moveType, task.moveData, st.uuid)
            IN IF r.hang
               THEN [st EXCEPT !.game = r.game, !.hung = TRUE]
               ELSE [st EXCEPT !.game = AfterMove(r, task.playerId, task.moveType,
                                                  task.moveData, st.clock + 1),
                               !.clock = st.clock + 1,
                               !.uuid = IF SpreadIds(r.game) # SpreadIds(st.game)
                                        THEN st.uuid + 1 ELSE st.uuid,
                               !.users = UpdateStats(st.users, r),
                               !.tasks[t].pc = "broadcast",
                               !.tasks[t].applied = st.clock,
                               !.tasks[t].turn = st.game.current_player_index]
      [] task.pc = "broadcast" ->
            LET sent == broadcast_game_state(st.connections) IN
            [st EXCEPT !.connections = sent.connections,
                       !.tasks[t].pc = "done",
                       !.tasks[t].response = IF sent.raised THEN "Internal Server Error"
                                             ELSE "success"]
      [] OTHER -> st

\* the handler of request t runs until it replies, waits, or never returns
RECURSIVE Run(_, _)
Run(st, t) ==
    LET next == TaskStep(st, t) IN
    IF next.hung \/ next.tasks[t].pc = "done" \/ Suspends(next.tasks[t].pc)
    THEN next
    ELSE Run(next, t)

\* the players a concurrent request names: the one whose turn it is, the one
\* seated after them, and one that is not seated
TurnArgs ==
    {game.players[i].id : i \in {k \in 1..Len(game.players) :
         \/ k = game.current_player_index + 1
         \/ k = ((game.current_player_index + 1) % Len(game.players)) + 1}}
    \cup {NoPlayer}

\* a move request (a draw from the deck or a discard) arrives and waits for
\* the event loop
Submit ==
    /\ ~hung
    /\ \E t \in 1..MaxTasks :
          /\ tasks[t].pc = "idle"
          /\ \A u \in 1..(t - 1) : tasks[u].pc # "idle"
          /\ \E playerId \in TurnArgs, current_user \in UserArgs,
                move \in {<<"draw", NoData>>}
                     \cup {<<"discard", MoveData("deck", cardId, <<>>, NoSpread)>> :
                              cardId \in CardArgs(CurrentHand) \ {NoCard}} :
                tasks' = [tasks EXCEPT ![t] =
                            [NoTask EXCEPT !.pc = "check", !.playerId = playerId,
                                           !.current_user = current_user,
                                           !.moveType = move[1], !.moveData = move[2],
                                           !.sent = clock]]
    /\ UNCHANGED <<game, clock, uuid, hung, elsewhere>>

\* the event loop runs the handler of one waiting request up to its next wait
Resume ==
    /\ ~hung
    /\ \E t \in 1..MaxTasks :
          /\ tasks[t].pc \in {"check", "process", "broadcast"}
          /\ \E st \in {Run(Shared, t)} :
                /\ game' = st.game
                /\ clock' = st.clock
                /\ uuid' = st.uuid
                /\ hung' = st.hung
                /\ tasks' = st.tasks
                /\ connections' = st.connections
                /\ users' = st.users
                /\ UNCHANGED apart

NextAsync == StartGame \/ Submit \/ Resume

SpecAsync == Init /\ [][NextAsync]_vars

\* C30: two move requests of one session handled concurrently do not
\* interleave their validation and their mutation: every applied request was
\* checked against the state left by all the moves applied before it (no move
\* was applied between its checks and its own mutation, and it was the turn of
\* its player when it was applied), so two requests of the current player sent
\* together are not both applied as if each were the first
C30_MovesSerialized ==
    /\ \A t \in 1..MaxTasks :
          tasks[t].applied # -1 =>
             /\ tasks[t].checked = tasks[t].applied
             /\ tasks[t].turn = tasks[t].player_index
    /\ \A t, u \in 1..MaxTasks :
          (t # u /\ tasks[t].applied # -1 /\ tasks[u].applied # -1) =>
             tasks[t].applied # tasks[u].applied

\* two discards of the current player sent together: one is applied and passes
\* the turn, the other is refused
C30_Witness ==
    /\ game.game_status = "playing"
    /\ \E t, u \in 1..MaxTasks :
          /\ t # u
          /\ tasks[t].playerId = tasks[u].playerId
          /\ tasks[t].sent = tasks[u].sent
          /\ tasks[t].moveType = "discard" /\ tasks[u].moveType = "discard"
          /\ tasks[t].response = "success"
          /\ tasks[u].response = "Not your turn"

(* ------------------------------------------------- websocket subscribers *)
\* websocket_endpoint up to its receive loop: the websocket is accepted, the
\* user of its token (if any) is kept for the connection, and the websocket is
\* appended to the list of the session, which is created when missing
Connect ==
    /\ ~hung
    /\ Len(connections.sockets) < MaxSockets
    /\ \E user_id \in AllUsers \cup {NoUser} :
          connections' = [listed |-> TRUE,
                          sockets |-> Append(connections.sockets,
                                             [open |-> TRUE, received |-> 0,
                                              user_id |-> user_id])]
    /\ UNCHANGED <<game, clock, uuid, hung, tasks, users, apart>>

\* the far end of a websocket goes away: send_text on it raises from now on
SocketCloses ==
    /\ ~hung
    /\ \E i \in DOMAIN connections.sockets :
          /\ connections.sockets[i].open
          /\ connections' = [connections EXCEPT !.sockets[i].open = FALSE]
    /\ UNCHANGED <<game, clock, uuid, hung, tasks, users, apart>>

\* websocket_endpoint, message["type"] == "join": the seat named by the message
\* takes the user of the connection when the connection has one; the broadcast
\* that follows changes nothing in the session
WsJoin ==
    /\ ~hung
    /\ \E i \in DOMAIN connections.sockets, player_id \in PlayerIdArgs :
          /\ connections.sockets[i].open
          /\ game' = [game EXCEPT !.players =
                         [k \in 1..Len(game.players) |->
                             IF /\ game.players[k].id = player_id
                                /\ connections.sockets[i].user_id # NoUser
                             THEN [game.players[k] EXCEPT
                                      !.user_id = connections.sockets[i].user_id]
                             ELSE game.players[k]]]
          /\ connections' = broadcast_game_state(connections).connections
    /\ UNCHANGED <<clock, uuid, hung, tasks, users, apart>>

\* a single move request arrives while websockets come and go
Post ==
    /\ \A t \in 1..MaxTasks : tasks[t].pc = "idle"
    /\ Submit

NextNotify == StartGame \/ Connect \/ SocketCloses \/ Post \/ Resume

SpecNotify == Init /\ [][NextNotify]_vars

\* C31: a notification that fails does not fail the move: when the session is
\* being played and has a websocket on which sending raises (and another that
\* is open), a move that was applied is answered with success
C31_NotifyFailureKeepsMove ==
    \A t \in 1..MaxTasks :
        ( /\ game.game_status = "playing"
          /\ tasks[t].pc = "done"
          /\ tasks[t].applied # -1
          /\ \E i \in DOMAIN connections.sockets : ~connections.sockets[i].open
          /\ \E i \in DOMAIN connections.sockets : connections.sockets[i].open )
        => tasks[t].response = "success"

(* ------------------------------------------------ GameManager persistence *)
\* JSON text is a sequence of tokens; a TEXT column that is NULL is <<>>
Tok(k, v) == [k |-> k, v |-> v]
JsonNull == <<Tok("null", 0)>>

\* json.dumps of a card dict: its id (suit, rank and value go with the id) and
\* its isFaceUp flag
DumpCard(c) ==
    <<Tok("{", 0), Tok("id", c.id), Tok("isFaceUp", IF c.isFaceUp THEN 1 ELSE 0), Tok("}", 0)>>

RECURSIVE DumpItems(_)
DumpItems(texts) ==
    IF texts = <<>> THEN <<>>
    ELSE IF Len(texts) = 1 THEN Head(texts)
    ELSE Head(texts) \o <<Tok(",", 0)>> \o DumpItems(Tail(texts))

\* json.dumps of a list whose items have the given texts
DumpList(texts) == <<Tok("[", 0)>> \o DumpItems(texts) \o <<Tok("]", 0)>>

DumpCards(cards) == DumpList([i \in 1..Len(cards) |-> DumpCard(cards[i])])

DumpSpread(sp) ==
    <<Tok("{", 0), Tok("id", sp.id), Tok("owner", sp.owner), Tok(sp.type, 0)>>
      \o DumpCards(sp.cards) \o <<Tok("}", 0)>>

DumpSpreads(spreads) == DumpList([i \in 1..Len(spreads) |-> DumpSpread(spreads[i])])

DumpNumbers(ns) == DumpList([i \in 1..Len(ns) |-> <<Tok("number", ns[i])>>])

DumpMove(m) ==
    IF m = NoMove THEN JsonNull
    ELSE <<Tok("{", 0), Tok("playerId", m.playerId), Tok(m.moveType, 0),
           Tok(m.moveData.source, 0), Tok("cardId", m.moveData.cardId),
           Tok("spreadId", m.moveData.spreadId)>>
           \o DumpNumbers(m.moveData.cards)
           \o <<Tok("timestamp", m.timestamp), Tok("}", 0)>>

\* json.loads: each parser reads one value at the head of the text and returns
\* it with the text that follows it
LoadCard(text) ==
    [val |-> [id |-> text[2].v, isFaceUp |-> text[3].v = 1], rest |-> SubSeq(text, 5, Len(text))]

RECURSIVE LoadCardItems(_, _)
LoadCardItems(text, acc) ==
    IF Head(text).k = "]" THEN [val |-> acc, rest |-> Tail(text)]
    ELSE LET c == LoadCard(text) IN
         IF Head(c.rest).k = ","
         THEN LoadCardItems(Tail(c.rest), Append(acc, c.val))
         ELSE [val |-> Append(acc, c.val), rest |-> Tail(c.rest)]

LoadCards(text) == LoadCardItems(Tail(text), <<>>)

LoadSpread(text) ==
    LET cards == LoadCards(SubSeq(text, 5, Len(text))) IN
    [val |-> [id |-> text[2].v, owner |-> text[3].v, type |-> text[4].k, cards |-> cards.val],
     rest |-> Tail(cards.rest)]

RECURSIVE LoadSpreadItems(_, _)
LoadSpreadItems(text, acc) ==
    IF Head(text).k = "]" THEN [val |-> acc, rest |-> Tail(text)]
    ELSE LET sp == LoadSpread(text) IN
         IF Head(sp.rest).k = ","
         THEN LoadSpreadItems(Tail(sp.rest), Append(acc, sp.val))
         ELSE [val |-> Append(acc, sp.val), rest |-> Tail(sp.rest)]

LoadSpreads(text) == LoadSpreadItems(Tail(text), <<>>)

RECURSIVE LoadNumberItems(_, _)
LoadNumberItems(text, acc) ==
    IF Head(text).k = "]" THEN [val |-> acc, rest |-> Tail(text)]
    ELSE IF Head(text).k = "," THEN LoadNumberItems(Tail(text), acc)
    ELSE LoadNumberItems(Tail(text), Append(acc, Head(text).v))

LoadMove(text) ==
    IF Head(text).k = "null" THEN NoMove
    ELSE LET cards == LoadNumberItems(SubSeq(text, 8, Len(text)), <<>>) IN
         [playerId |-> text[2].v, moveType |-> text[3].k,
          moveData |-> [source |-> text[4].k, cardId |-> text[5].v,
                        cards |-> cards.val, spreadId |-> text[6].v],
          timestamp |-> Head(cards.rest).v]

\* the session as GameManager holds it: the dict of get_game, whose cards are
\* dicts carrying their own isFaceUp; None is the card with no id
CardDict(g, c) == [id |-> c, isFaceUp |-> c \in g.face_up]
NoCardDict == [id |-> NoCard, isFaceUp |-> FALSE]
CardDicts(g, cards) == [i \in 1..Len(cards) |-> CardDict(g, cards[i])]
SpreadDicts(g, spreads) ==
    [i \in 1..Len(spreads) |-> [spreads[i] EXCEPT !.cards = CardDicts(g, spreads[i].cards)]]

Session(g) ==
    [players |-> [i \in 1..Len(g.players) |->
                    [id |-> g.players[i].id,
                     user_id |-> g.players[i].user_id,
                     hand |-> CardDicts(g, g.players[i].hand),
                     spreads |-> SpreadDicts(g, g.players[i].spreads),
                     has_dropped |-> g.players[i].has_dropped,
                     score |-> g.players[i].score,
                     last_move |-> g.players[i].last_move,
                     turns |-> g.players[i].turns,
                     has_drawn_from_under |-> g.players[i].has_drawn_from_under,
                     position |-> i - 1]],
     deck |-> CardDicts(g, g.deck),
     discard_pile |-> CardDicts(g, g.discard_pile),
     under_card |-> IF g.under_card = NoCard THEN NoCardDict ELSE CardDict(g, g.under_card),
     current_player_index |-> g.current_player_index,
     turn_phase |-> g.turn_phase,
     table_spreads |-> SpreadDicts(g, g.table_spreads),
     turn_count |-> g.turn_count,
     game_status |-> g.game_status,
     last_move |-> g.last_move,
     allow_under_card_any_turn |-> g.allow_under_card_any_turn,
     winner |-> g.winner,
     win_reason |-> g.win_reason,
     creator_id |-> g.creator_id]

\* the rows of a session that create_game and join_game have inserted: one
\* games row, and one game_players row per seat with the column defaults
InsertedRows(se) ==
    [games |-> [deck |-> DumpCards(<<>>), discard_pile |-> DumpCards(<<>>),
                under_card |-> JsonNull, current_player_index |-> 0,
                turn_phase |-> "waiting", table_spreads |-> DumpSpreads(<<>>),
                turn_count |-> 0, game_status |-> "lobby", last_move |-> JsonNull,
                settings |-> TRUE, winner |-> NoPlayer, win_reason |-> <<>>,
                creator_id |-> se.creator_id],
     game_players |-> {[id |-> se.players[i].id, user_id |-> se.players[i].user_id,
                        hand |-> DumpCards(<<>>), spreads |-> DumpSpreads(<<>>),
                        has_dropped |-> 0, score |-> 0, last_move |-> <<>>, turns |-> 0,
                        has_drawn_from_under |-> 0, position |-> se.players[i].position] :
                          i \in 1..Len(se.players)}]

\* sqlite stores a Python bool in a BOOLEAN column as 0 or 1
SqlBool(b) == IF b THEN 1 ELSE 0

\* mutant of save_game: the player's UPDATE writes hand and spreads only
save_game_hands_only(db, se) ==
    [games |-> [db.games EXCEPT
                  !.deck = DumpCards(se.deck),
                  !.discard_pile = DumpCards(se.discard_pile),
                  !.under_card = IF se.under_card = NoCardDict THEN JsonNull
                                 ELSE DumpCard(se.under_card),
                  !.current_player_index = se.current_player_index,
                  !.turn_phase = se.turn_phase,
                  !.table_spreads = DumpSpreads(se.table_spreads),
                  !.turn_count = se.turn_count,
                  !.game_status = se.game_status,
                  !.last_move = DumpMove(se.last_move),
                  !.settings = se.allow_under_card_any_turn,
                  !.winner = se.winner,
                  !.win_reason = se.win_reason],
     game_players |->
        {IF \E i \in 1..Len(se.players) : se.players[i].id = row.id
         THEN LET player == se.players[CHOOSE i \in 1..Len(se.players) : se.players[i].id = row.id]
              IN [row EXCEPT !.hand = DumpCards(player.hand),
                             !.spreads = DumpSpreads(player.spreads)]
         ELSE row : row \in db.game_players}]

\* save_game: UPDATE of the games row, then UPDATE ... WHERE id = ? of the row
\* of each player of the session; a player without a row is not written
save_game(db, se) ==
    [games |-> [db.games EXCEPT
                  !.deck = DumpCards(se.deck),
                  !.discard_pile = DumpCards(se.discard_pile),
                  !.under_card = IF se.under_card = NoCardDict THEN JsonNull
                                 ELSE DumpCard(se.under_card),
                  !.current_player_index = se.current_player_index,
                  !.turn_phase = se.turn_phase,
                  !.table_spreads = DumpSpreads(se.table_spreads),
                  !.turn_count = se.turn_count,
                  !.game_status = se.game_status,
                  !.last_move = DumpMove(se.last_move),
                  !.settings = se.allow_under_card_any_turn,
                  !.winner = se.winner,
                  !.win_reason = se.win_reason],
     game_players |->
        {IF \E i \in 1..Len(se.players) : se.players[i].id = row.id
         THEN LET player == se.players[CHOOSE i \in 1..Len(se.players) : se.players[i].id = row.id]
              IN [row EXCEPT !.hand = DumpCards(player.hand),
                             !.spreads = DumpSpreads(player.spreads),
                             !.has_dropped = SqlBool(player.has_dropped),
                             !.score = player.score,
                             !.last_move = player.last_move,
                             !.turns = player.turns,
                             !.has_drawn_from_under = SqlBool(player.has_drawn_from_under)]
         ELSE row : row \in db.game_players}]

\* SELECT * FROM game_players WHERE game_id = ? ORDER BY position
OrderByPosition(rows) ==
    [i \in 1..Cardinality(rows) |->
        CHOOSE row \in rows : Cardinality({r \in rows : r.position < row.position}) = i - 1]

\* get_game: the games row and the player rows in position order, with the
\* JSON columns parsed ("json.loads(x) if x else default")
get_game(db) ==
    LET rows == OrderByPosition(db.game_players) IN
    [players |-> [i \in 1..Len(rows) |->
                    [rows[i] EXCEPT
                        !.hand = IF @ = <<>> THEN <<>> ELSE LoadCards(@).val,
                        !.spreads = IF @ = <<>> THEN <<>> ELSE LoadSpreads(@).val]],
     deck |-> IF db.games.deck = <<>> THEN <<>> ELSE LoadCards(db.games.deck).val,
     discard_pile |-> IF db.games.discard_pile = <<>> THEN <<>>
                      ELSE LoadCards(db.games.discard_pile).val,
     under_card |-> IF db.games.under_card = <<>> \/ Head(db.games.under_card).k = "null"
                    THEN NoCardDict ELSE LoadCard(db.games.under_card).val,
     current_player_index |-> db.games.current_player_index,
     turn_phase |-> db.games.turn_phase,
     table_spreads |-> IF db.games.table_spreads = <<>> THEN <<>>
                       ELSE LoadSpreads(db.games.table_spreads).val,
     turn_count |-> db.games.turn_count,
     game_status |-> db.games.game_status,
     last_move |-> IF db.games.last_move = <<>> THEN NoMove ELSE LoadMove(db.games.last_move),
     allow_under_card_any_turn |-> db.games.settings,
     winner |-> db.games.winner,
     win_reason |-> db.games.win_reason,
     creator_id |-> db.games.creator_id]

\* Python's ==: True equals 1 and False equals 0, so a session read back with
\* 0/1 in its flags equals the session that held booleans
PyFlags(se) ==
    [se EXCEPT !.players =
        [i \in 1..Len(se.players) |->
            [se.players[i] EXCEPT !.has_dropped = SqlBool(@),
                                  !.has_drawn_from_under = SqlBool(@)]]]

\* the sessions that are saved: a lobby that fills, the start, and the moves of
\* the player whose turn it is
StoreMove ==
    /\ clock < MaxStoreCalls
    /\ \E move \in {<<"draw", MoveData(source, NoCard, <<>>, NoSpread)>> : source \in Sources}
                    \cup {<<"discard", MoveData("deck", cardId, <<>>, NoSpread)>> :
                             cardId \in CardArgs(CurrentHand) \ {NoCard}}
                    \cup {<<"createSpread", MoveData("deck", NoCard, cards, NoSpread)>> :
                             cards \in IdLists(CurrentHand)}
                    \cup {<<"tonk", NoData>>, <<"drop", NoData>>} :
          TurnMove(move[1], move[2])

NextStore == JoinGame \/ TurnsStart \/ StoreMove

SpecStore == Init /\ [][NextStore]_vars

\* C32: saving a session and loading it again yields an equal session: the
\* same players in the same order, the same cards in the same order in deck,
\* discard pile, under card, hands and spreads, and the same turn, phase,
\* status and result fields
C32_SaveLoadRoundTrip ==
    get_game(save_game(InsertedRows(Session(game)), Session(game))) = PyFlags(Session(game))

\* a session with a dropped player, a spread on the table side of a player, a
\* taken under card and a recorded move is saved and read back
C32_Witness ==
    /\ game.game_status = "playing"
    /\ game.last_move # NoMove
    /\ \E i \in 1..Len(game.players) : game.players[i].has_dropped
    /\ \E i \in 1..Len(game.players) : game.players[i].spreads # <<>>
    /\ get_game(save_game(InsertedRows(Session(game)), Session(game))) = PyFlags(Session(game))

\* every spread of the session, the players' and the table's
AllSpreads(g) ==
    Concat([i \in 1..Len(g.players) |-> g.players[i].spreads]) \o g.table_spreads

\* a createSpread has been applied and has put a spread down
SpreadCreated ==
    /\ Applied
    /\ AppliedMove.moveType = "createSpread"
    /\ Len(AllSpreads(game')) > Len(AllSpreads(game))

\* C33: every spread holds at least 3 cards: a createSpread that puts a spread
\* down takes at least 3 cards out of the hand of the player who made it and
\* appends one spread, owned by that player, that holds exactly those cards;
\* and in every state every spread, a player's or the table's, holds at least
\* 3 cards
C33_SpreadsOfThree ==
    /\ [](\A i \in 1..Len(AllSpreads(game)) : Len(AllSpreads(game)[i].cards) >= 3)
    /\ [][SpreadCreated =>
            LET before == game.players[Mover]
                after == game'.players[Mover]
                spread == Last(after.spreads)
            IN /\ Front(after.spreads) = before.spreads
               /\ spread.owner = before.id
               /\ Len(spread.cards) >= 3
               /\ Range(spread.cards) \subseteq Range(before.hand)
               /\ Range(after.hand) = Range(before.hand) \ Range(spread.cards)
               /\ Len(after.hand) = Len(before.hand) - Len(spread.cards)
               /\ game'.table_spreads = game.table_spreads
               /\ \A i \in 1..Len(game.players) :
                     i # Mover => game'.players[i] = game.players[i]]_vars

\* a player has put a spread down out of a dealt hand
C33_Witness ==
    /\ game.game_status = "playing"
    /\ game.last_move.moveType = "createSpread"
    /\ \E i \in 1..Len(game.players) :
          /\ game.players[i].id = game.last_move.playerId
          /\ game.players[i].spreads # <<>>
          /\ Len(game.players[i].hand) = HandSize - Len(Last(game.players[i].spreads).cards)

\* C34: only discard and the moves that can end the game end the turn: a draw,
\* createSpread, addToSpread or hit that is applied, whether or not it takes
\* effect, leaves current_player_index and turn_count as they were, and the
\* hand, spreads, score and has_dropped of every other player too
C34_TurnKeptByOtherMoves ==
    [][(Applied /\ AppliedMove.moveType \in {"draw", "createSpread", "addToSpread", "hit"}) =>
          /\ game'.current_player_index = game.current_player_index
          /\ game'.turn_count = game.turn_count
          /\ \A i \in 1..Len(game.players) :
                i # Mover =>
                   /\ game'.players[i].hand = game.players[i].hand
                   /\ game'.players[i].spreads = game.players[i].spreads
                   /\ game'.players[i].score = game.players[i].score
                   /\ game'.players[i].has_dropped = game.players[i].has_dropped]_vars

\* in a game of three, the player to move has put a spread down and added a
\* card to it, and it is still their turn
C34_Witness ==
    /\ game.game_status = "playing"
    /\ Len(game.players) = 3
    /\ game.last_move.moveType = "addToSpread"
    /\ game.current_player_index = 0
    /\ game.last_move.playerId = game.players[1].id
    /\ game.players[1].spreads # <<>>
    /\ Len(game.players[1].spreads[1].cards) = 4

\* C35: every move call returns: no request is left in the search for the
\* next seat that has not dropped
C35_MovesTerminate == ~hung

\* C36: the recorded winner has not dropped: whenever a session that was
\* started (its under card is in place) is over and no request is stuck, the
\* winner is a seated player whose has_dropped is false
C36_WinnerNotDropped ==
    (game.game_status = "game_over" /\ ~hung /\ game.under_card # NoCard) =>
        \E i \in 1..Len(game.players) :
            /\ game.players[i].id = game.winner
            /\ ~game.players[i].has_dropped

\* C37: the result is counted once per game: in a session that was started
\* (its under card is in place), every registered user has at most one game
\* played from this session, and at most one game won is counted in all
C37_StatsCountedOnce ==
    game.under_card # NoCard =>
        /\ \A u \in DOMAIN users : users[u].games_played <= 1
        /\ \A u \in DOMAIN users : users[u].games_won <= 1

(* --------------------------------------------------------- seat ownership *)
\* a draw from the deck posted for any seat by any registered user
SeatMove ==
    \E playerId \in PlayerIdArgs, current_user \in AllUsers :
        ApplyMove(playerId, current_user, "draw", NoData)

NextSeats == JoinGame \/ Connect \/ WsJoin \/ SeatMove

SpecSeats == Init /\ [][NextSeats]_vars

\* C38: seat ownership is stable: a seat whose user_id is a user keeps that
\* user whatever join requests, websocket messages and moves follow
C38_SeatOwnerStable ==
    [][\A i \in 1..Len(game.players) :
          game.players[i].user_id # NoUser =>
             game'.players[i].user_id = game.players[i].user_id]_vars

(* ------------------------------------------- GameManager, callers at once *)
\* every call opens its own sqlite connection: what it reads (get_game) and
\* what it commits (INSERT, save_game) are each one step, with the steps of
\* other callers in between

\* join_game up to its INSERT: the session is read by room code and the three
\* checks are made on what was read
GmJoin ==
    \E c \in 1..MaxCallers, user_id \in UserArgs :
        /\ calls[c].pc = "idle"
        /\ calls' = [calls EXCEPT ![c] =
              [pc |-> IF /\ store.game_status = "lobby"
                         /\ Len(store.game_players) < max_players
                         /\ ~(user_id # NoUser /\ \E i \in 1..Len(store.game_players) :
                                                      store.game_players[i].user_id = user_id)
                      THEN "insert" ELSE "done",
               user_id |-> user_id,
               read |-> store,
               result |-> IF store.game_status # "lobby" THEN "Game already started"
                          ELSE IF Len(store.game_players) >= max_players THEN "Game is full"
                          ELSE IF user_id # NoUser /\ \E i \in 1..Len(store.game_players) :
                                                        store.game_players[i].user_id = user_id
                               THEN "You are already in this game"
                          ELSE "none"]]
        /\ UNCHANGED <<appVars, store, manager, threads>>

\* join_game, INSERT INTO game_players and commit: the new row takes the
\* position len(game["players"]) of the session that was read
GmJoinInsert ==
    \E c \in 1..MaxCallers :
        /\ calls[c].pc = "insert"
        /\ store' = [store EXCEPT !.game_players =
                        Append(@, [id |-> max_players + c,
                                   user_id |-> calls[c].user_id,
                                   position |-> Len(calls[c].read.game_players),
                                   hand |-> 0])]
        /\ calls' = [calls EXCEPT ![c].pc = "done", ![c].result = "joined"]
        /\ UNCHANGED <<appVars, manager, threads>>

\* start_game up to save_game: the session is read by id and the two checks
\* are made on what was read
GmStart ==
    \E c \in 1..MaxCallers :
        /\ calls[c].pc = "idle"
        /\ calls' = [calls EXCEPT ![c] =
              [pc |-> IF Len(store.game_players) >= 2 /\ store.game_status = "lobby"
                      THEN "save" ELSE "done",
               user_id |-> NoUser,
               read |-> store,
               result |-> IF Len(store.game_players) < 2 THEN "Need at least 2 players"
                          ELSE IF store.game_status # "lobby" THEN "Game already started"
                          ELSE "none"]]
        /\ UNCHANGED <<appVars, store, manager, threads>>

\* start_game, the deal and save_game: the games row is updated from the
\* session that was read, and so is the row of each player of that session
GmStartSave ==
    \E c \in 1..MaxCallers :
        /\ calls[c].pc = "save"
        /\ LET read == calls[c].read
               dealt == HandSize * Len(read.game_players)
           IN store' = [game_status |-> "playing",
                        deck |-> read.deck - dealt - 2,
                        game_players |->
                           [i \in 1..Len(store.game_players) |->
                               IF \E k \in 1..Len(read.game_players) :
                                     read.game_players[k].id = store.game_players[i].id
                               THEN [store.game_players[i] EXCEPT !.hand = HandSize]
                               ELSE store.game_players[i]]]
        /\ calls' = [calls EXCEPT ![c].pc = "done", ![c].result = "success"]
        /\ UNCHANGED <<appVars, manager, threads>>

NextGm == GmJoin \/ GmJoinInsert \/ GmStart \/ GmStartSave

SpecGm == Init /\ [][NextGm]_vars

\* C39: GameManager.join_game is safe when calls run at once: the session
\* never seats more than max_players, no two of its players share a position,
\* and no player is seated once its status has left lobby
C39_ConcurrentJoinSafe ==
    /\ [](/\ Len(store.game_players) <= max_players
          /\ \A i, k \in 1..Len(store.game_players) :
                i # k => store.game_players[i].position # store.game_players[k].position)
    /\ [][store.game_status # "lobby" =>
             Len(store'.game_players) = Len(store.game_players)]_vars

(* ------------------------------------- DatabaseManager(), threads at once *)
\* line 11, "if cls._instance is None", read without the lock
DbCheck ==
    \E t \in 1..MaxThreads :
        /\ threads[t].pc = "idle"
        /\ threads' = [threads EXCEPT ![t].pc =
                          IF manager.instance = 0 THEN "lock" ELSE "return"]
        /\ UNCHANGED <<appVars, store, calls, manager>>

\* line 12, "with cls._lock": entered by one thread at a time
DbLock ==
    \E t \in 1..MaxThreads :
        /\ threads[t].pc = "lock"
        /\ manager.lock = 0
        /\ manager' = [manager EXCEPT !.lock = t]
        /\ threads' = [threads EXCEPT ![t].pc = "checked"]
        /\ UNCHANGED <<appVars, store, calls>>

\* line 13, the second "if cls._instance is None", under the lock
DbCheckLocked ==
    \E t \in 1..MaxThreads :
        /\ threads[t].pc = "checked"
        /\ threads' = [threads EXCEPT ![t].pc =
                          IF manager.instance = 0 THEN "new" ELSE "unlock"]
        /\ UNCHANGED <<appVars, store, calls, manager>>

\* line 14, "cls._instance = super().__new__(cls)": the new object is stored
\* in the class attribute before _init_db is called on it
DbNew ==
    \E t \in 1..MaxThreads :
        /\ threads[t].pc = "new"
        /\ manager' = [manager EXCEPT !.allocated = @ + 1,
                                      !.instance = manager.allocated + 1]
        /\ threads' = [threads EXCEPT ![t].pc = "init"]
        /\ UNCHANGED <<appVars, store, calls>>

\* line 15, _init_db is entered: it prints, connects to sqlite and creates
\* the tables, and other threads run meanwhile
DbInitBegins ==
    \E t \in 1..MaxThreads :
        /\ threads[t].pc = "init"
        /\ manager' = [manager EXCEPT !.init_begun = @ + 1]
        /\ threads' = [threads EXCEPT ![t].pc = "tables"]
        /\ UNCHANGED <<appVars, store, calls>>

\* _init_db returns
DbInitEnds ==
    \E t \in 1..MaxThreads :
        /\ threads[t].pc = "tables"
        /\ manager' = [manager EXCEPT !.init_ended = @ + 1]
        /\ threads' = [threads EXCEPT ![t].pc = "unlock"]
        /\ UNCHANGED <<appVars, store, calls>>

\* the end of the with block
DbUnlock ==
    \E t \in 1..MaxThreads :
        /\ threads[t].pc = "unlock"
        /\ manager' = [manager EXCEPT !.lock = 0]
        /\ threads' = [threads EXCEPT ![t].pc = "return"]
        /\ UNCHANGED <<appVars, store, calls>>

\* line 16, "return cls._instance"
DbReturn ==
    \E t \in 1..MaxThreads :
        /\ threads[t].pc = "return"
        /\ threads' = [threads EXCEPT ![t] =
                          [pc |-> "done", got |-> manager.instance,
                           ready |-> manager.init_ended > 0]]
        /\ UNCHANGED <<appVars, store, calls, manager>>

NextDb ==
    \/ DbCheck \/ DbLock \/ DbCheckLocked \/ DbNew
    \/ DbInitBegins \/ DbInitEnds \/ DbUnlock \/ DbReturn

SpecDb == Init /\ [][NextDb]_vars

====
